---------------------------- MODULE Spec2Model ----------------------------
(***************************************************************************)
(* Fantasy-sports team analyzer: the scoring / lineup / trade engine       *)
(* (backend/services/scoring.py), the request handlers of backend/app.py   *)
(* that drive it, and the login routes of backend/auth/routes.py.          *)
(*                                                                         *)
(* Numbers.  Python floats are modelled in fixed point:                    *)
(*   projections        in hundredths of a point   (10.00 -> 1000)         *)
(*   weights            in hundredths              (1.08  -> 108)          *)
(*   receptions         in tenths                  (3.5   -> 35)           *)
(*   reception bonus    in tenths                  (0.5   -> 5)            *)
(*   scores and totals  in 1/10000 of a point      (projection * weight)   *)
(*   round(x, 2)        yields hundredths                                  *)
(* Python dicts are records; a key the dict does not hold is a field the   *)
(* record does not have (dict.get(k, d) is Get(p, k, d)).  A projection    *)
(* that is a string instead of a number is held, as its text, in the field *)
(* projection_text (the record then has no field projection).              *)
(***************************************************************************)
EXTENDS Integers, Sequences, FiniteSets, TLC

VARIABLES
    Player,           \* table players (class Player): the rows of the user, in id order
    SavedRoster,    \* table saved_rosters, in id order (the id is the index)
    LeagueSettings,  \* table league_settings: no row, or the user's row
    TradeReport,    \* table trade_reports, in id order
    session,          \* the user's session (the keys the trade page uses)
    flashed,          \* the messages the last request flashed
    requests,         \* the number of requests handled so far
    request,          \* the request handled last (the form of a trade request)
    e_players,        \* engine specification: the list handed to the engine
    e_after,          \* engine specification: the post-trade list handed along
    e_call,           \* engine specification: the last call and its result
    inflight,         \* race specification: the requests being handled at once
    User,             \* table users: the user's row (the remember_token column)
    cookies,          \* the browser's cookie jar (the remember_token cookie)
    issued,           \* the number of remember-me tokens generated so far
    revoked,          \* the tokens issued before a logout request
    response,         \* the body of the page or JSON answer sent last
    utcnow            \* datetime.utcnow(), in minutes

dbvars == <<Player, SavedRoster, LeagueSettings, TradeReport>>

appvars == <<Player, SavedRoster, LeagueSettings, TradeReport, session,
             flashed, requests, request>>

evars == <<e_players, e_after, e_call>>

\* the state only the race and the login specifications use
auxvars == <<inflight, User, cookies, issued, revoked, response, utcnow>>

vars == <<Player, SavedRoster, LeagueSettings, TradeReport, session,
          flashed, requests, request, e_players, e_after, e_call,
          inflight, User, cookies, issued, revoked, response, utcnow>>

-----------------------------------------------------------------------------
(* Python primitives *)

\* dict.get(key, default)
Get(d, key, default) == IF key \in DOMAIN d THEN d[key] ELSE default

\* str.upper() on the strings of the model
Upper(s) ==
    CASE s = "Ann" -> "ANN"
      [] s = "ann" -> "ANN"
      [] s = "Bo"  -> "BO"
      [] s = "bo"  -> "BO"
      [] s = "Zed" -> "ZED"
      [] s = "rb"  -> "RB"
      [] s = "k"   -> "K"
      [] s = "qb"  -> "QB"
      [] OTHER     -> s

\* str.strip() on the strings of the model
Strip(s) ==
    CASE s = " "    -> ""
      [] s = " Ann" -> "Ann"
      [] s = "ann " -> "ann"
      [] s = " Bo " -> "Bo"
      [] OTHER      -> s

\* float(text), with <<>> standing for ValueError
ParseFloat(text) ==
    CASE text = "10.00" -> <<1000>>
      [] text = "0.01"  -> <<1>>
      [] text = "abc"   -> <<>>
      [] OTHER          -> <<0>>

\* left fold of a binary operator over a sequence (a for loop with an accumulator)
FoldSeq(Op(_, _), init, seq) ==
    LET acc[i \in 0..Len(seq)] ==
            IF i = 0 THEN init ELSE Op(acc[i - 1], seq[i])
    IN  acc[Len(seq)]

\* [x for x in seq if Test(x)]
FilterSeq(seq, Test(_)) ==
    LET Step(out, x) == IF Test(x) THEN Append(out, x) ELSE out
    IN  FoldSeq(Step, <<>>, seq)

\* round(x, 2): x in 1/10000, result in hundredths, ties to even
Round2(x) ==
    LET q == x \div 100
        r == x % 100
    IN  IF r < 50 THEN q
        ELSE IF r > 50 THEN q + 1
        ELSE IF q % 2 = 0 THEN q ELSE q + 1

-----------------------------------------------------------------------------
(* services/scoring.py: the rule tables *)

POSITION_WEIGHTS ==
    [p \in {"QB", "RB", "WR", "TE", "FLEX", "K", "DEF", "D/ST"} |->
        CASE p = "QB" -> 100 [] p = "RB" -> 108 [] p = "WR" -> 108
          [] p = "TE" -> 100 [] p = "FLEX" -> 100 [] p = "K" -> 45
          [] p = "DEF" -> 65 [] p = "D/ST" -> 65]

POSITION_LIMITS ==
    [p \in {"QB", "RB", "WR", "TE", "FLEX", "K", "DEF", "D/ST"} |->
        CASE p = "QB" -> 1 [] p = "RB" -> 2 [] p = "WR" -> 2
          [] p = "TE" -> 1 [] p = "FLEX" -> 1 [] p = "K" -> 1
          [] p = "DEF" -> 1 [] p = "D/ST" -> 1]

SCORING_PRESETS ==
    [s \in {"Standard", "Half-PPR", "PPR"} |->
        [reception_bonus |->
            CASE s = "Standard" -> 0 [] s = "Half-PPR" -> 5 [] s = "PPR" -> 10]]

get_avg_receptions_by_position(position) ==
    LET reception_estimates ==
            [p \in {"QB", "RB", "WR", "TE", "FLEX", "K", "DEF", "D/ST"} |->
                CASE p = "QB" -> 0 [] p = "RB" -> 35 [] p = "WR" -> 60
                  [] p = "TE" -> 45 [] p = "FLEX" -> 50 [] p = "K" -> 0
                  [] p = "DEF" -> 0 [] p = "D/ST" -> 0]
    IN  Get(reception_estimates, position, 0)

-----------------------------------------------------------------------------
(* services/scoring.py: the engine functions *)

\* (player.get("position") or "UNK").upper()
NormPosition(player) ==
    LET position == Get(player, "position", "")
    IN  Upper(IF position = "" THEN "UNK" ELSE position)

\* player.get("is_starter", True), read as a truth value
StarterFlag(player) == Get(player, "is_starter", TRUE)

\* float(player.get("projection", 0) or 0): <<the number>>, or <<>> when
\* float() raises ValueError
float_projection(player) ==
    IF "projection" \in DOMAIN player THEN <<player.projection>>
    ELSE IF "projection_text" \in DOMAIN player
         THEN IF player.projection_text = "" THEN <<0>>
              ELSE ParseFloat(player.projection_text)
         ELSE <<0>>

\* the exception a scoring function ends with on these players, if any
Raised(players) ==
    IF \E i \in DOMAIN players : float_projection(players[i]) = <<>>
    THEN <<"ValueError">> ELSE <<>>

\* the mutant of calculate_player_score: an unknown key falls back to Standard
calculate_player_score_std(player, scoring_type) ==
    LET projection == float_projection(player)[1]
        position == NormPosition(player)
        weight == Get(POSITION_WEIGHTS, position, 100)
        preset == Get(SCORING_PRESETS, scoring_type, SCORING_PRESETS["Standard"])
    IN  projection * weight
          + get_avg_receptions_by_position(position) * preset.reception_bonus * 100

\* the mutant of calculate_player_score: the bonus is subtracted
calculate_player_score_minus(player, scoring_type) ==
    LET projection == float_projection(player)[1]
        position == NormPosition(player)
        weight == Get(POSITION_WEIGHTS, position, 100)
        preset == Get(SCORING_PRESETS, scoring_type, SCORING_PRESETS["PPR"])
    IN  projection * weight
          - get_avg_receptions_by_position(position) * preset.reception_bonus * 100

calculate_player_score(player, scoring_type) ==
    LET projection == float_projection(player)[1]
        position == NormPosition(player)
        weight == Get(POSITION_WEIGHTS, position, 100)
        base_score == projection * weight
        preset == Get(SCORING_PRESETS, scoring_type, SCORING_PRESETS["PPR"])
        reception_bonus == preset.reception_bonus
        avg_receptions == get_avg_receptions_by_position(position)
        bonus_score == avg_receptions * reception_bonus * 100
    IN  base_score + bonus_score

\* the mutant of team_strength_v3: the else branch adds to the starters too
team_strength_v3_nobench(players, scoring_type) ==
    LET Step(acc, player) ==
            [acc EXCEPT ![1] = @ + calculate_player_score(player, scoring_type)]
    IN  FoldSeq(Step, <<0, 0>>, players)

team_strength_v3(players, scoring_type) ==
    LET Step(acc, player) ==
            LET score == calculate_player_score(player, scoring_type)
                is_starter == StarterFlag(player)
            IN  IF is_starter THEN [acc EXCEPT ![1] = @ + score]
                ELSE [acc EXCEPT ![2] = @ + score]
    IN  FoldSeq(Step, <<0, 0>>, players)

\* a Python dict that remembers insertion order: keys in order, and the map
EmptyDict == [order |-> <<>>, map |-> <<>>]

DictGet(d, key, default) == Get(d.map, key, default)

DictSet(d, key, value) ==
    [order |-> IF key \in DOMAIN d.map THEN d.order ELSE Append(d.order, key),
     map   |-> [k \in DOMAIN d.map \cup {key} |->
                    IF k = key THEN value ELSE d.map[k]]]

\* the mutant of position_breakdown_v3: the key is the position as given, not
\* uppercased
position_breakdown_v3_raw(players, scoring_type) ==
    LET Step(breakdown, player) ==
            LET position == LET p == Get(player, "position", "")
                            IN  IF p = "" THEN "UNK" ELSE p
                score == calculate_player_score(player, scoring_type)
                is_starter == StarterFlag(player)
                entry == DictGet(breakdown, position, [starter |-> 0, bench |-> 0])
            IN  DictSet(breakdown, position,
                        IF is_starter
                        THEN [entry EXCEPT !.starter = @ + score]
                        ELSE [entry EXCEPT !.bench = @ + score])
    IN  FoldSeq(Step, EmptyDict, players)

position_breakdown_v3(players, scoring_type) ==
    LET Step(breakdown, player) ==
            LET position == NormPosition(player)
                score == calculate_player_score(player, scoring_type)
                is_starter == StarterFlag(player)
                entry == DictGet(breakdown, position, [starter |-> 0, bench |-> 0])
            IN  DictSet(breakdown, position,
                        IF is_starter
                        THEN [entry EXCEPT !.starter = @ + score]
                        ELSE [entry EXCEPT !.bench = @ + score])
    IN  FoldSeq(Step, EmptyDict, players)

\* the mutant of validate_lineup: the limit check is >= instead of >
validate_lineup_ge(players) ==
    LET Count(counts, player) ==
            IF StarterFlag(player)
            THEN DictSet(counts, NormPosition(player),
                         DictGet(counts, NormPosition(player), 0) + 1)
            ELSE counts
        starter_counts == FoldSeq(Count, EmptyDict, players)
        Over(position) ==
            starter_counts.map[position] >= Get(POSITION_LIMITS, position, 1)
        over == FilterSeq(starter_counts.order, Over)
        violations ==
            [i \in 1..Len(over) |->
                [position |-> over[i],
                 current  |-> starter_counts.map[over[i]],
                 limit    |-> Get(POSITION_LIMITS, over[i], 1),
                 excess   |-> starter_counts.map[over[i]]
                                - Get(POSITION_LIMITS, over[i], 1)]]
    IN  [valid |-> Len(violations) = 0,
         violations |-> violations,
         starter_counts |-> starter_counts.map]

validate_lineup(players) ==
    LET Count(counts, player) ==
            IF StarterFlag(player)
            THEN DictSet(counts, NormPosition(player),
                         DictGet(counts, NormPosition(player), 0) + 1)
            ELSE counts
        starter_counts == FoldSeq(Count, EmptyDict, players)
        Over(position) ==
            starter_counts.map[position] > Get(POSITION_LIMITS, position, 1)
        over == FilterSeq(starter_counts.order, Over)
        violations ==
            [i \in 1..Len(over) |->
                [position |-> over[i],
                 current  |-> starter_counts.map[over[i]],
                 limit    |-> Get(POSITION_LIMITS, over[i], 1),
                 excess   |-> starter_counts.map[over[i]]
                                - Get(POSITION_LIMITS, over[i], 1)]]
    IN  [valid |-> Len(violations) = 0,
         violations |-> violations,
         starter_counts |-> starter_counts.map]

\* the mutant of can_add_starter: the comparison is <= instead of <
can_add_starter_le(players, new_position) ==
    LET validation == validate_lineup(players)
        current_count == Get(validation.starter_counts, Upper(new_position), 0)
        limit == Get(POSITION_LIMITS, Upper(new_position), 1)
    IN  current_count <= limit

can_add_starter(players, new_position) ==
    LET validation == validate_lineup(players)
        current_count == Get(validation.starter_counts, Upper(new_position), 0)
        limit == Get(POSITION_LIMITS, Upper(new_position), 1)
    IN  current_count < limit

-----------------------------------------------------------------------------
(* app.py: _generate_trade_suggestions.  A suggestion string is a record of *)
(* the text's kind and of the values formatted into it.                    *)

\* list.sort / sorted with a key: stable, Less the strict order of the keys
StableSort(seq, Less(_, _)) ==
    LET Insert(out, x) ==
            LET later == {j \in DOMAIN out : Less(x, out[j])}
            IN  IF later = {} THEN Append(out, x)
                ELSE LET j == CHOOSE k \in later : \A m \in later : k <= m
                     IN  SubSeq(out, 1, j - 1) \o <<x>> \o SubSeq(out, j, Len(out))
    IN  FoldSeq(Insert, <<>>, seq)

\* the order of the position strings under sorted()
StrRank(position) ==
    CASE position = "" -> 0
      [] position = "D/ST" -> 1 [] position = "DEF" -> 2
      [] position = "FLEX" -> 3 [] position = "K" -> 4
      [] position = "QB" -> 5 [] position = "RB" -> 6
      [] position = "TE" -> 7 [] position = "UNK" -> 8
      [] position = "WR" -> 9 [] position = "XX" -> 10

\* POSITION_LIMITS.items(): the keys in the order of the table
POSITION_LIMITS_keys == <<"QB", "RB", "WR", "TE", "FLEX", "K", "DEF", "D/ST">>

\* by_position: per position the players' name, flag and score, best first
by_position(players, scoring_type) ==
    LET Step(pos_map, p) ==
            LET pos == NormPosition(p)
            IN  DictSet(pos_map, pos,
                    Append(DictGet(pos_map, pos, <<>>),
                           [name |-> Get(p, "name", "None"),
                            is_starter |-> StarterFlag(p),
                            score |-> calculate_player_score(p, scoring_type)]))
        pos_map == FoldSeq(Step, EmptyDict, players)
        Better(x, y) == x.score > y.score
    IN  [order |-> pos_map.order,
         map |-> [pos \in DOMAIN pos_map.map |->
                     StableSort(pos_map.map[pos], Better)]]

\* the mutant of starter_optimization: the weakest of all the starters of the
\* position is compared, not the weakest of the first `limit` ones
starter_optimization_all(after_pos) ==
    LET Step(out, pos) ==
            LET players == after_pos.map[pos]
                IsStarter(p) == p.is_starter
                IsBench(p) == ~p.is_starter
                starters == FilterSeq(players, IsStarter)
                bench == FilterSeq(players, IsBench)
                Worse(x, y) == x.score < y.score
                Better(x, y) == x.score > y.score
                starters_sorted == StableSort(starters, Worse)
                bench_sorted == StableSort(bench, Better)
            IN  IF starters # <<>> /\ bench # <<>>
                   /\ bench_sorted[1].score > starters_sorted[1].score
                THEN Append(out,
                        [text |-> "Promote", name |-> bench_sorted[1].name,
                         pos |-> pos,
                         diff |-> Round2(bench_sorted[1].score
                                           - starters_sorted[1].score)])
                ELSE out
    IN  FoldSeq(Step, <<>>, after_pos.order)

\* 1) starter_optimization
starter_optimization(after_pos) ==
    LET Step(out, pos) ==
            LET players == after_pos.map[pos]
                limit == Get(POSITION_LIMITS, pos, 1)
                IsStarter(p) == p.is_starter
                IsBench(p) == ~p.is_starter
                all_starters == FilterSeq(players, IsStarter)
                starters == SubSeq(all_starters, 1,
                                   IF Len(all_starters) < limit
                                   THEN Len(all_starters) ELSE limit)
                bench == FilterSeq(players, IsBench)
                Worse(x, y) == x.score < y.score
                Better(x, y) == x.score > y.score
                starters_sorted == StableSort(starters, Worse)
                bench_sorted == StableSort(bench, Better)
            IN  IF starters # <<>> /\ bench # <<>>
                   /\ bench_sorted[1].score > starters_sorted[1].score
                THEN Append(out,
                        [text |-> "Promote", name |-> bench_sorted[1].name,
                         pos |-> pos,
                         diff |-> Round2(bench_sorted[1].score
                                           - starters_sorted[1].score)])
                ELSE out
    IN  FoldSeq(Step, <<>>, after_pos.order)

\* the entry of a breakdown at a position, zeros when it has none
BreakdownAt(bd, pos) == DictGet(bd, pos, [starter |-> 0, bench |-> 0])

\* sorted(set(before_bd.keys()) | set(after_bd.keys()))
SortedPositions(before_bd, after_bd) ==
    LET keys == DOMAIN before_bd.map \cup DOMAIN after_bd.map
        ranked == [r \in 0..10 |-> {k \in keys : StrRank(k) = r}]
        Step(out, r) == IF ranked[r] = {} THEN out
                        ELSE Append(out, CHOOSE k \in ranked[r] : TRUE)
    IN  FoldSeq(Step, <<>>, [i \in 1..11 |-> i - 1])

\* the mutant of positional_improvement: only the positions of the roster
\* after the trade are compared
positional_improvement_after_only(before_bd, after_bd) ==
    LET Step(out, pos) ==
            LET b == BreakdownAt(before_bd, pos)
                a == BreakdownAt(after_bd, pos)
                d_starter == Round2(a.starter - b.starter)
                d_bench == Round2(a.bench - b.bench)
                first == IF d_starter > 0
                         THEN <<[text |-> "starter strength improved",
                                 pos |-> pos, delta |-> d_starter]>>
                         ELSE IF d_starter < 0
                         THEN <<[text |-> "starter strength decreased",
                                 pos |-> pos, delta |-> d_starter]>>
                         ELSE <<>>
                second == IF d_bench # 0
                          THEN <<[text |-> "bench depth change",
                                  pos |-> pos, delta |-> d_bench]>>
                          ELSE <<>>
            IN  out \o first \o second
    IN  FoldSeq(Step, <<>>, SortedPositions(after_bd, after_bd))

\* 2) positional_improvement
positional_improvement(before_bd, after_bd) ==
    LET Step(out, pos) ==
            LET b == BreakdownAt(before_bd, pos)
                a == BreakdownAt(after_bd, pos)
                d_starter == Round2(a.starter - b.starter)
                d_bench == Round2(a.bench - b.bench)
                first == IF d_starter > 0
                         THEN <<[text |-> "starter strength improved",
                                 pos |-> pos, delta |-> d_starter]>>
                         ELSE IF d_starter < 0
                         THEN <<[text |-> "starter strength decreased",
                                 pos |-> pos, delta |-> d_starter]>>
                         ELSE <<>>
                second == IF d_bench # 0
                          THEN <<[text |-> "bench depth change",
                                  pos |-> pos, delta |-> d_bench]>>
                          ELSE <<>>
            IN  out \o first \o second
    IN  FoldSeq(Step, <<>>, SortedPositions(before_bd, after_bd))

\* the mutant of depth_and_bench: a bench equal to the starters is a surplus
depth_and_bench_ge(after_bd) ==
    LET Step(out, pos) ==
            LET bench_score == after_bd.map[pos].bench
                starter_score == after_bd.map[pos].starter
                thin == IF starter_score > 0
                           /\ bench_score * 100 < 30 * starter_score
                        THEN <<[text |-> "Depth is thin", pos |-> pos]>>
                        ELSE <<>>
                surplus == IF bench_score >= starter_score
                           THEN <<[text |-> "Bench surplus", pos |-> pos]>>
                           ELSE <<>>
            IN  out \o thin \o surplus
    IN  FoldSeq(Step, <<>>, after_bd.order)

\* 3) depth_and_bench
depth_and_bench(after_bd) ==
    LET Step(out, pos) ==
            LET bench_score == after_bd.map[pos].bench
                starter_score == after_bd.map[pos].starter
                thin == IF starter_score > 0
                           /\ bench_score * 100 < 30 * starter_score
                        THEN <<[text |-> "Depth is thin", pos |-> pos]>>
                        ELSE <<>>
                surplus == IF bench_score > starter_score
                           THEN <<[text |-> "Bench surplus", pos |-> pos]>>
                           ELSE <<>>
            IN  out \o thin \o surplus
    IN  FoldSeq(Step, <<>>, after_bd.order)

\* the mutant of positional_need_warnings: the violations of validate_lineup
\* are left out
positional_need_warnings_missing_only(after_players) ==
    LET validation == validate_lineup(after_players)
        Step(out, pos) ==
            LET limit == POSITION_LIMITS[pos]
                count == Get(validation.starter_counts, pos, 0)
            IN  IF limit > 0 /\ count = 0
                THEN Append(out, [text |-> "No starter set", pos |-> pos,
                                  current |-> 0, limit |-> limit])
                ELSE out
    IN  FoldSeq(Step, <<>>, POSITION_LIMITS_keys)

\* 4) positional_need_warnings
positional_need_warnings(after_players) ==
    LET validation == validate_lineup(after_players)
        too_many == [i \in DOMAIN validation.violations |->
                        [text |-> "Too many starters",
                         pos |-> validation.violations[i].position,
                         current |-> validation.violations[i].current,
                         limit |-> validation.violations[i].limit]]
        Step(out, pos) ==
            LET limit == POSITION_LIMITS[pos]
                count == Get(validation.starter_counts, pos, 0)
            IN  IF limit > 0 /\ count = 0
                THEN Append(out, [text |-> "No starter set", pos |-> pos,
                                  current |-> 0, limit |-> limit])
                ELSE out
    IN  too_many \o FoldSeq(Step, <<>>, POSITION_LIMITS_keys)

\* the mutant of unfavorable_trade_recos: every drop is named, not the first 3
unfavorable_trade_recos_uncapped(delta_total, before_bd, after_bd) ==
    IF delta_total < 0
    THEN LET Step(drops, pos) ==
                 LET d_st == Round2(after_bd.map[pos].starter
                                      - BreakdownAt(before_bd, pos).starter)
                 IN  IF d_st < 0 THEN Append(drops, <<pos, d_st>>) ELSE drops
             Lower(x, y) == x[2] < y[2]
             drops == StableSort(FoldSeq(Step, <<>>, after_bd.order), Lower)
         IN  [i \in DOMAIN drops |->
                 [text |-> "Recover", pos |-> drops[i][1], aim |-> -drops[i][2]]]
               \o <<[text |-> "Consider counter-offering", pos |-> "", aim |-> 0]>>
    ELSE <<>>

\* 5) unfavorable_trade_recos
unfavorable_trade_recos(delta_total, before_bd, after_bd) ==
    IF delta_total < 0
    THEN LET Step(drops, pos) ==
                 LET d_st == Round2(after_bd.map[pos].starter
                                      - BreakdownAt(before_bd, pos).starter)
                 IN  IF d_st < 0 THEN Append(drops, <<pos, d_st>>) ELSE drops
             Lower(x, y) == x[2] < y[2]
             drops == StableSort(FoldSeq(Step, <<>>, after_bd.order), Lower)
             top == SubSeq(drops, 1, IF Len(drops) < 3 THEN Len(drops) ELSE 3)
         IN  [i \in DOMAIN top |->
                 [text |-> "Recover", pos |-> top[i][1], aim |-> -top[i][2]]]
               \o <<[text |-> "Consider counter-offering", pos |-> "", aim |-> 0]>>
    ELSE <<>>

\* the mutant of neutral_trade_suggestions: the bench gains are sorted
\* ascending, so the smallest one is named
neutral_trade_suggestions_least(delta_total, before_bd, after_bd) ==
    IF delta_total = 0
    THEN LET Step(bench_improve, pos) ==
                 LET d_b == Round2(after_bd.map[pos].bench
                                     - BreakdownAt(before_bd, pos).bench)
                 IN  IF d_b > 0 THEN Append(bench_improve, <<pos, d_b>>)
                     ELSE bench_improve
             Lower(x, y) == x[2] < y[2]
             bench_improve ==
                 StableSort(FoldSeq(Step, <<>>, after_bd.order), Lower)
         IN  <<[text |-> "Seek marginal gains", pos |-> "", gain |-> 0]>>
               \o IF bench_improve # <<>>
                  THEN <<[text |-> "Best bench gain",
                          pos |-> bench_improve[1][1],
                          gain |-> bench_improve[1][2]]>>
                  ELSE <<>>
    ELSE <<>>

\* 6) neutral_trade_suggestions
neutral_trade_suggestions(delta_total, before_bd, after_bd) ==
    IF delta_total = 0
    THEN LET Step(bench_improve, pos) ==
                 LET d_b == Round2(after_bd.map[pos].bench
                                     - BreakdownAt(before_bd, pos).bench)
                 IN  IF d_b > 0 THEN Append(bench_improve, <<pos, d_b>>)
                     ELSE bench_improve
             Higher(x, y) == x[2] > y[2]
             bench_improve ==
                 StableSort(FoldSeq(Step, <<>>, after_bd.order), Higher)
         IN  <<[text |-> "Seek marginal gains", pos |-> "", gain |-> 0]>>
               \o IF bench_improve # <<>>
                  THEN <<[text |-> "Best bench gain",
                          pos |-> bench_improve[1][1],
                          gain |-> bench_improve[1][2]]>>
                  ELSE <<>>
    ELSE <<>>

\* the mutant of final_summary: a zero delta is reported as Accept
final_summary_ge(delta_total, before_starter, after_starter) ==
    LET decision == IF delta_total >= 0 THEN "Accept" ELSE "Reject"
    IN  <<[text |-> "Decision", decision |-> decision, delta |-> delta_total,
           before |-> Round2(before_starter), after |-> Round2(after_starter)]>>

\* 7) final_summary
final_summary(delta_total, before_starter, after_starter) ==
    LET decision == IF delta_total > 0 THEN "Accept"
                    ELSE IF delta_total = 0 THEN "Neutral" ELSE "Reject"
    IN  <<[text |-> "Decision", decision |-> decision, delta |-> delta_total,
           before |-> Round2(before_starter), after |-> Round2(after_starter)]>>

generate_trade_suggestions(before_players, after_players, scoring_type) ==
    LET before_starter == team_strength_v3(before_players, scoring_type)[1]
        after_starter == team_strength_v3(after_players, scoring_type)[1]
        before_bd == position_breakdown_v3(before_players, scoring_type)
        after_bd == position_breakdown_v3(after_players, scoring_type)
        delta_total == Round2(after_starter - before_starter)
        after_pos == by_position(after_players, scoring_type)
    IN  [starter_optimization |-> starter_optimization(after_pos),
         positional_improvement |-> positional_improvement(before_bd, after_bd),
         depth_and_bench |-> depth_and_bench(after_bd),
         positional_need_warnings |-> positional_need_warnings(after_players),
         unfavorable_trade_recos |->
             unfavorable_trade_recos(delta_total, before_bd, after_bd),
         neutral_trade_suggestions |->
             neutral_trade_suggestions(delta_total, before_bd, after_bd),
         final_summary |->
             final_summary(delta_total, before_starter, after_starter)]

-----------------------------------------------------------------------------
(* app.py: what the requests carry *)

\* int(text), with <<>> standing for ValueError
ParseInt(text) ==
    CASE text = "0" -> <<0>>
      [] text = "1" -> <<1>>
      [] text = "2" -> <<2>>
      [] text = "3" -> <<3>>
      [] OTHER      -> <<>>

\* POST /players/add: the form fields
AddForms ==
    {[name |-> c.name, position |-> c.position, projection |-> c.projection,
      is_starter |-> st] :
        c \in {[name |-> " Ann", position |-> "rb", projection |-> "10.00"],
               [name |-> "ann ", position |-> "k",  projection |-> "0.01"],
               [name |-> "Bo",   position |-> "qb", projection |-> "abc"]},
        st \in {"true", "false"}}
    \cup {[name |-> " ", position |-> "rb", projection |-> "10.00",
           is_starter |-> "true"]}

\* POST /players/add_from_search: the form fields; a field the form does not
\* carry reads as "" (position) or as the default "starter" (target)
SearchForms ==
    {[full_name |-> "Cy", position |-> position, target |-> target] :
        position \in {"", "k"}, target \in {"starter", "bench"}}

\* POST /league/settings: the scoring_type field
LeagueForms == {"Standard", "Custom"}

\* POST /trade/analyze: other_roster_id, and give / receive split at the commas
RosterIdForms == {"", "x", "1"}

NameForms == {<<"">>, <<" Ann", "">>, <<"Bo">>, <<"Bo", "Zed">>}

\* datetime.utcnow().year when the request is handled
utcnow_year == 2026

\* session[key] = value unless the session holds the key already
SetDefault(sess, key, value) ==
    IF key \in DOMAIN sess THEN sess ELSE sess @@ (key :> value)

\* get_live_context(): the season, the week and the live-projection switch
\* are read from the session, and each one the session lacks is stored in it
get_live_context(sess) ==
    SetDefault(SetDefault(SetDefault(sess, "season", utcnow_year),
                          "week", 1),
               "use_live_projections", TRUE)

\* the live rows of player_catalog that are fresh (within the TTL) while live
\* projections are on, keyed by (full_name, position): the projection_points
LiveTables == {<<>>, (<<"Bo", "QB">> :> 2000)}

-----------------------------------------------------------------------------
(* app.py: trade_analyze *)

\* [n.strip() for n in text.split(',') if n.strip()]
StripNames(segments) ==
    LET Step(out, n) == IF Strip(n) # "" THEN Append(out, Strip(n)) ELSE out
    IN  FoldSeq(Step, <<>>, segments)

effective_projection(live, name, position, fallback_proj) ==
    IF <<name, Upper(position)>> \in DOMAIN live
    THEN live[<<name, Upper(position)>>]
    ELSE fallback_proj

\* my_input / other_input: the rows as dicts, with effective projections
ToInput(live, rows) ==
    [i \in 1..Len(rows) |->
        [name |-> rows[i].name,
         position |-> rows[i].position,
         projection |-> effective_projection(live, rows[i].name,
                                             rows[i].position, rows[i].projection),
         is_starter |-> rows[i].is_starter]]

remove_by_names(items, names) ==
    LET names_upper == {Upper(names[k]) : k \in DOMAIN names}
        Keep(i) == Upper(i.name) \notin names_upper
    IN  FilterSeq(items, Keep)

pick_from_pool(pool, names) ==
    LET Step(picked, n) ==
            LET matches == {i \in DOMAIN pool : Upper(pool[i].name) = Upper(n)}
            IN  IF matches # {}
                THEN Append(picked, pool[CHOOSE i \in matches :
                                            \A j \in matches : i <= j])
                ELSE picked
    IN  FoldSeq(Step, <<>>, names)

\* the mutant of MissingNames: once a name is missing the whole field is listed
MissingNamesAll(names, items) ==
    LET names_upper == {Upper(items[i].name) : i \in DOMAIN items}
    IN  IF \E k \in DOMAIN names : Upper(names[k]) \notin names_upper
        THEN names ELSE <<>>

\* missing_give / missing_receive
MissingNames(names, items) ==
    LET names_upper == {Upper(items[i].name) : i \in DOMAIN items}
        Missing(n) == Upper(n) \notin names_upper
    IN  FilterSeq(names, Missing)

\* the mutant of NoNamesGiven: the check is left out
NoNamesGivenUnchecked(give_names, receive_names) == FALSE

\* not give_names and not receive_names
NoNamesGiven(give_names, receive_names) ==
    give_names = <<>> /\ receive_names = <<>>

\* base_total = base_starters; post_total = post_starters
StrengthTotal(strength) == strength[1]

\* the mutant of Rationale: a zero delta is classified Accept
RationaleGe(delta) ==
    IF delta >= 0 THEN "Accept" ELSE IF delta = 0 THEN "Neutral" ELSE "Reject"

Rationale(delta) ==
    IF delta > 0 THEN "Accept" ELSE IF delta = 0 THEN "Neutral" ELSE "Reject"

Flash(category, message) == <<[category |-> category, message |-> message]>>

FlashNames(category, message, names) ==
    <<[category |-> category, message |-> message, names |-> names]>>

\* what one trade_analyze request computes: the response it flashes and, when
\* the analysis is reached, the row it stores and the session entry
TradeOutcome(other_roster_id, give, receive, live) ==
    LET give_names == StripNames(give)
        receive_names == StripNames(receive)
        scoring_type == IF LeagueSettings # <<>>
                        THEN LeagueSettings[1].scoring_type ELSE "PPR"
        my_players == Player
        other_id_int == ParseInt(other_roster_id)
        found == /\ other_id_int # <<>>
                 /\ other_id_int[1] # 0
                 /\ other_id_int[1] \in DOMAIN SavedRoster
        Fail(category, message) ==
            [ok |-> FALSE, flash |-> Flash(category, message)]
    IN  IF my_players = <<>> THEN Fail("warning", "roster is empty")
        ELSE IF other_roster_id = "" THEN Fail("warning", "select a roster")
        ELSE IF other_id_int = <<>> THEN Fail("error", "invalid roster selection")
        ELSE IF ~found THEN Fail("error", "roster not found")
        ELSE
        LET other == SavedRoster[other_id_int[1]]
            other_players == other.players_json
            my_input == ToInput(live, my_players)
        IN  IF NoNamesGiven(give_names, receive_names)
            THEN Fail("warning", "enter player names")
            ELSE
            LET base_total == StrengthTotal(team_strength_v3(my_input, scoring_type))
                other_input == ToInput(live, other_players)
                missing_give == MissingNames(give_names, my_input)
                missing_receive == MissingNames(receive_names, other_input)
            IN  IF missing_give # <<>>
                THEN [ok |-> FALSE,
                      flash |-> FlashNames("error", "give players not found",
                                           missing_give)]
                ELSE IF missing_receive # <<>>
                THEN [ok |-> FALSE,
                      flash |-> FlashNames("error", "receive players not found",
                                           missing_receive)]
                ELSE
                LET my_post == remove_by_names(my_input, give_names)
                                  \o pick_from_pool(other_input, receive_names)
                    post_total == StrengthTotal(team_strength_v3(my_post, scoring_type))
                    delta == Round2(post_total - base_total)
                    rationale == Rationale(delta)
                    detailed == [before |-> Round2(base_total),
                                 after |-> Round2(post_total),
                                 delta |-> delta,
                                 rationale |-> rationale]
                IN  [ok |-> TRUE,
                     flash |-> <<[category |-> "info",
                                  message |-> "Trade analysis",
                                  detailed |-> detailed]>>,
                     my_input |-> my_input,
                     my_post |-> my_post,
                     report |-> [user_id |-> 1,
                                 other_roster |-> other.name,
                                 give_json |-> give_names,
                                 receive_json |-> receive_names,
                                 before_strength |-> base_total,
                                 after_strength |-> post_total,
                                 delta |-> delta,
                                 rationale |-> detailed],
                     last_trade_result |->
                                [other_roster |-> other.name,
                                 give |-> give_names,
                                 receive |-> receive_names,
                                 before_strength |-> base_total,
                                 after_strength |-> post_total,
                                 delta |-> delta,
                                 rationale |-> detailed,
                                 suggestions |->
                                    generate_trade_suggestions(
                                        my_input, my_post, scoring_type)]]

\* the mutant of ReportsAfter: the new row takes the place of the older ones
ReportsAfterReplace(outcome) ==
    IF outcome.ok THEN <<outcome.report>> ELSE TradeReport

\* the mutant of ReportsAfter: the row is added before the input is validated
ReportsAfterEager(outcome) ==
    Append(TradeReport,
           IF outcome.ok THEN outcome.report ELSE [user_id |-> 1])

\* s.add(TradeReport(...)); s.commit(): reached only past every validation
ReportsAfter(outcome) ==
    IF outcome.ok THEN Append(TradeReport, outcome.report) ELSE TradeReport

\* the mutant of trade_analyze: an analyzed trade is carried out on the stored
\* roster, the given players leaving it
trade_analyze_applied(other_roster_id, give, receive, live) ==
    \E outcome \in {TradeOutcome(other_roster_id, give, receive, live)} :
    LET given == outcome.last_trade_result.give
        Kept(row) == \A i \in DOMAIN given : Upper(row.name) # Upper(given[i])
    IN  /\ TradeReport' = ReportsAfter(outcome)
        /\ session' = IF outcome.ok
                      THEN ("last_trade_result" :> outcome.last_trade_result)
                              @@ get_live_context(session)
                      ELSE get_live_context(session)
        /\ flashed' = outcome.flash
        /\ Player' = IF outcome.ok THEN SelectSeq(Player, Kept) ELSE Player
        /\ UNCHANGED <<SavedRoster, LeagueSettings>>

trade_analyze(other_roster_id, give, receive, live) ==
    \E outcome \in {TradeOutcome(other_roster_id, give, receive, live)} :
        /\ TradeReport' = ReportsAfter(outcome)
        /\ session' = IF outcome.ok
                      THEN ("last_trade_result" :> outcome.last_trade_result)
                              @@ get_live_context(session)
                      ELSE get_live_context(session)
        /\ flashed' = outcome.flash
        /\ UNCHANGED <<Player, SavedRoster, LeagueSettings>>

-----------------------------------------------------------------------------
(* app.py: the roster and settings handlers *)

\* the rows as the dicts the handlers hand to can_add_starter
CurrentPlayerDicts ==
    [i \in 1..Len(Player) |->
        [name |-> Player[i].name, position |-> Player[i].position,
         projection |-> Player[i].projection, is_starter |-> Player[i].is_starter]]

add_player(form) ==
    LET name == Strip(form.name)
        position == Upper(Strip(form.position))
        wants_starter == form.is_starter = "true"
        parsed == ParseFloat(form.projection)
        projection == IF parsed = <<>> THEN 0 ELSE parsed[1]
        limit_reached == wants_starter
                           /\ ~can_add_starter(CurrentPlayerDicts, position)
        is_starter == wants_starter /\ ~limit_reached
    IN  IF name # "" /\ position # ""
        THEN /\ Player' = Append(Player,
                    [name |-> name, position |-> position,
                     projection |-> projection, is_starter |-> is_starter])
             /\ flashed' =
                    (IF limit_reached
                     THEN Flash("warning", "position limit reached") ELSE <<>>)
                    \o Flash("success", "added")
        ELSE /\ flashed' = Flash("error", "name and position are required")
             /\ UNCHANGED Player

toggle_player_status(player_id) ==
    IF player_id \notin DOMAIN Player
    THEN /\ flashed' = Flash("error", "player not found")
         /\ UNCHANGED Player
    ELSE LET player == Player[player_id]
         IN  IF ~player.is_starter
                  /\ ~can_add_starter(CurrentPlayerDicts, player.position)
             THEN /\ flashed' = Flash("warning", "position limit reached")
                  /\ UNCHANGED Player
             ELSE /\ Player' = [Player EXCEPT ![player_id].is_starter = ~@]
                  /\ flashed' = Flash("success", "moved")

\* POST /players/add_from_search: the player found by the live search is
\* stored with projection 0.0; over the limit, a starter is not stored at all
add_from_search(form) ==
    LET position == Upper(form.position)
        is_starter == form.target = "starter"
    IN  /\ session' = get_live_context(session)
        /\ IF is_starter /\ ~can_add_starter(CurrentPlayerDicts, position)
           THEN /\ flashed' = Flash("warning", "position limit reached")
                /\ UNCHANGED Player
           ELSE /\ Player' = Append(Player,
                       [name |-> form.full_name, position |-> position,
                        projection |-> 0, is_starter |-> is_starter])
                /\ flashed' = Flash("success", "added from live search")

clear_players ==
    /\ Player' = <<>>
    /\ flashed' = Flash("info", "cleared")

save_current_roster(roster_name) ==
    LET data == [i \in 1..Len(Player) |->
                    [name |-> Player[i].name, position |-> Player[i].position,
                     projection |-> Player[i].projection,
                     is_starter |-> Player[i].is_starter]]
    IN  /\ SavedRoster' = Append(SavedRoster,
                [user_id |-> 1, name |-> roster_name, players_json |-> data,
                 is_public |-> FALSE])
        /\ flashed' = Flash("success", "saved")

\* POST /rosters/<id>/list and /unlist: the roster's is_public flag
list_saved_roster(roster_id) ==
    IF roster_id \notin DOMAIN SavedRoster \/ SavedRoster[roster_id].user_id # 1
    THEN /\ flashed' = Flash("error", "cannot list")
         /\ UNCHANGED SavedRoster
    ELSE /\ SavedRoster' = [SavedRoster EXCEPT ![roster_id].is_public = TRUE]
         /\ flashed' = Flash("success", "listed")

unlist_saved_roster(roster_id) ==
    IF roster_id \notin DOMAIN SavedRoster \/ SavedRoster[roster_id].user_id # 1
    THEN /\ flashed' = Flash("error", "cannot unlist")
         /\ UNCHANGED SavedRoster
    ELSE /\ SavedRoster' = [SavedRoster EXCEPT ![roster_id].is_public = FALSE]
         /\ flashed' = Flash("info", "unlisted")

\* GET /trade/ai_explain/<id>: reads the report and renders the explanation
trade_ai_explain(report_id) ==
    IF report_id \notin DOMAIN TradeReport \/ TradeReport[report_id].user_id # 1
    THEN flashed' = Flash("error", "Trade not found")
    ELSE flashed' = <<>>

update_league_settings(scoring_type) ==
    /\ LeagueSettings' = <<[user_id |-> 1, scoring_type |-> scoring_type]>>
    /\ flashed' = Flash("success", "league settings updated")

-----------------------------------------------------------------------------
(* The application: one logged-in user sends requests, one at a time *)

\* no request is in flight, no remember-me token was ever issued
AuxInit ==
    /\ inflight = <<>>
    /\ User = [remember_token |-> 0]
    /\ cookies = [remember_token |-> 0]
    /\ issued = 0
    /\ revoked = {}
    /\ response = <<>>
    /\ utcnow = 0

MaxRequests == 4

Init ==
    /\ Player = <<>>
    /\ SavedRoster = <<>>
    /\ LeagueSettings = <<>>
    /\ TradeReport = <<>>
    /\ session = <<>>
    /\ flashed = <<>>
    /\ requests = 0
    /\ AuxInit
    /\ request = <<>>
    /\ e_players = <<>>
    /\ e_after = <<>>
    /\ e_call = [fn |-> "none"]

Handled(form) ==
    /\ requests < MaxRequests
    /\ requests' = requests + 1
    /\ request' = form

AddPlayer ==
    /\ Handled([handler |-> "add_player"])
    /\ \E form \in AddForms : add_player(form)
    /\ UNCHANGED <<SavedRoster, LeagueSettings, TradeReport, session, evars, auxvars>>

TogglePlayerStatus ==
    /\ Handled([handler |-> "toggle_player_status"])
    /\ \E player_id \in 1..(Len(Player) + 1) : toggle_player_status(player_id)
    /\ UNCHANGED <<SavedRoster, LeagueSettings, TradeReport, session, evars, auxvars>>

ClearPlayers ==
    /\ Handled([handler |-> "clear_players"])
    /\ clear_players
    /\ UNCHANGED <<SavedRoster, LeagueSettings, TradeReport, session, evars, auxvars>>

SaveCurrentRoster ==
    /\ Handled([handler |-> "save_current_roster"])
    /\ save_current_roster("Saved")
    /\ UNCHANGED <<Player, LeagueSettings, TradeReport, session, evars, auxvars>>

UpdateLeagueSettings ==
    /\ Handled([handler |-> "update_league_settings"])
    /\ \E scoring_type \in LeagueForms : update_league_settings(scoring_type)
    /\ UNCHANGED <<Player, SavedRoster, TradeReport, session, evars, auxvars>>

ListSavedRoster ==
    /\ Handled([handler |-> "list_saved_roster"])
    /\ \E roster_id \in 1..(Len(SavedRoster) + 1) : list_saved_roster(roster_id)
    /\ UNCHANGED <<Player, LeagueSettings, TradeReport, session, evars, auxvars>>

UnlistSavedRoster ==
    /\ Handled([handler |-> "unlist_saved_roster"])
    /\ \E roster_id \in 1..(Len(SavedRoster) + 1) : unlist_saved_roster(roster_id)
    /\ UNCHANGED <<Player, LeagueSettings, TradeReport, session, evars, auxvars>>

TradeAiExplain ==
    /\ Handled([handler |-> "trade_ai_explain"])
    /\ \E report_id \in 1..(Len(TradeReport) + 1) : trade_ai_explain(report_id)
    /\ UNCHANGED <<dbvars, session, evars, auxvars>>

TradeAnalyze ==
    /\ \E other_roster_id \in RosterIdForms, give \in NameForms,
          receive \in NameForms, live \in LiveTables :
          /\ Handled([handler |-> "trade_analyze",
                      other_roster_id |-> other_roster_id,
                      give |-> give, receive |-> receive, live |-> live])
          /\ trade_analyze(other_roster_id, give, receive, live)
    /\ UNCHANGED <<evars, auxvars>>

Next ==
    \/ AddPlayer
    \/ TogglePlayerStatus
    \/ ClearPlayers
    \/ SaveCurrentRoster
    \/ UpdateLeagueSettings
    \/ ListSavedRoster
    \/ UnlistSavedRoster
    \/ TradeAiExplain
    \/ TradeAnalyze

Spec == Init /\ [][Next]_vars

\* The roster specification: the requests that build the stored roster
AddFromSearch ==
    /\ Handled([handler |-> "add_from_search"])
    /\ \E form \in SearchForms : add_from_search(form)
    /\ UNCHANGED <<SavedRoster, LeagueSettings, TradeReport, evars, auxvars>>

RosterNext ==
    \/ AddPlayer
    \/ AddFromSearch
    \/ TogglePlayerStatus
    \/ ClearPlayers

SpecRoster == Init /\ [][RosterNext]_vars

\* The race specification.  The server handles requests on several threads
\* (desktop.py: waitress, threads=4), each in a database session of its own.
\* A handler first reads the roster and checks can_add_starter, and later
\* writes and commits; the SELECT holds no lock, so the reads of other
\* requests can fall between the two.  Each request is therefore two steps.
MaxInflight == 2

\* the rosters the race starts from: empty, or two kickers on the bench
RaceRosters ==
    {<<>>,
     <<[name |-> "Ann", position |-> "K", projection |-> 1000, is_starter |-> FALSE],
       [name |-> "Bo", position |-> "K", projection |-> 500, is_starter |-> FALSE]>>}

\* the requests of the race name one position, K, whose limit is 1
RaceAddForms == {form \in AddForms : form.position = "k"}

RaceSearchForms == {form \in SearchForms : form.position = "k"}

RaceInit ==
    /\ Player \in RaceRosters
    /\ inflight = [r \in 1..MaxInflight |-> [phase |-> "idle"]]
    /\ SavedRoster = <<>>
    /\ LeagueSettings = <<>>
    /\ TradeReport = <<>>
    /\ session = <<>>
    /\ flashed = <<>>
    /\ requests = 0
    /\ request = <<>>
    /\ User = [remember_token |-> 0]
    /\ cookies = [remember_token |-> 0]
    /\ issued = 0
    /\ revoked = {}
    /\ response = <<>>
    /\ utcnow = 0
    /\ e_players = <<>>
    /\ e_after = <<>>
    /\ e_call = [fn |-> "none"]

\* the response of a request of the race
Responded(handler, messages) ==
    /\ requests' = requests + 1
    /\ request' = [handler |-> handler]
    /\ flashed' = messages

\* add_player up to the check (app.py 732-759): the row it is going to store
read_add_player(r, form) ==
    LET name == Strip(form.name)
        position == Upper(Strip(form.position))
        wants_starter == form.is_starter = "true"
        parsed == ParseFloat(form.projection)
        projection == IF parsed = <<>> THEN 0 ELSE parsed[1]
        limit_reached == wants_starter
                           /\ ~can_add_starter(CurrentPlayerDicts, position)
        is_starter == wants_starter /\ ~limit_reached
    IN  /\ inflight[r].phase = "idle"
        /\ IF name # "" /\ position # ""
           THEN /\ inflight' = [inflight EXCEPT ![r] =
                        [phase |-> "checked", handler |-> "add_player",
                         row |-> [name |-> name, position |-> position,
                                  projection |-> projection,
                                  is_starter |-> is_starter],
                         warned |-> limit_reached]]
                /\ UNCHANGED <<requests, request, flashed>>
           ELSE /\ inflight' = [inflight EXCEPT ![r] = [phase |-> "done"]]
                /\ Responded("add_player",
                             Flash("error", "name and position are required"))
        /\ UNCHANGED Player

\* add_player from s.add to the response (app.py 762-776)
write_add_player(r) ==
    /\ inflight[r].phase = "checked"
    /\ inflight[r].handler = "add_player"
    /\ Player' = Append(Player, inflight[r].row)
    /\ inflight' = [inflight EXCEPT ![r] = [phase |-> "done"]]
    /\ Responded("add_player",
                 (IF inflight[r].warned
                  THEN Flash("warning", "position limit reached") ELSE <<>>)
                 \o Flash("success", "added"))

\* add_from_search up to the check (app.py 872-891)
read_add_from_search(r, form) ==
    LET position == Upper(form.position)
        is_starter == form.target = "starter"
    IN  /\ inflight[r].phase = "idle"
        /\ session' = get_live_context(session)
        /\ IF is_starter /\ ~can_add_starter(CurrentPlayerDicts, position)
           THEN /\ inflight' = [inflight EXCEPT ![r] = [phase |-> "done"]]
                /\ Responded("add_from_search",
                             Flash("warning", "position limit reached"))
           ELSE /\ inflight' = [inflight EXCEPT ![r] =
                        [phase |-> "checked", handler |-> "add_from_search",
                         row |-> [name |-> form.full_name,
                                  position |-> position, projection |-> 0,
                                  is_starter |-> is_starter],
                         warned |-> FALSE]]
                /\ UNCHANGED <<requests, request, flashed>>
        /\ UNCHANGED Player

\* add_from_search from s.add to the response (app.py 893-931)
write_add_from_search(r) ==
    /\ inflight[r].phase = "checked"
    /\ inflight[r].handler = "add_from_search"
    /\ Player' = Append(Player, inflight[r].row)
    /\ inflight' = [inflight EXCEPT ![r] = [phase |-> "done"]]
    /\ Responded("add_from_search", Flash("success", "added from live search"))

\* toggle_player_status up to the check (app.py 936-959): the player object
\* is loaded, and the flag it will get is the opposite of the flag loaded
read_toggle_player_status(r, player_id) ==
    /\ inflight[r].phase = "idle"
    /\ IF player_id \notin DOMAIN Player
       THEN /\ inflight' = [inflight EXCEPT ![r] = [phase |-> "done"]]
            /\ Responded("toggle_player_status",
                         Flash("error", "player not found"))
       ELSE IF ~Player[player_id].is_starter
                /\ ~can_add_starter(CurrentPlayerDicts, Player[player_id].position)
       THEN /\ inflight' = [inflight EXCEPT ![r] = [phase |-> "done"]]
            /\ Responded("toggle_player_status",
                         Flash("warning", "position limit reached"))
       ELSE /\ inflight' = [inflight EXCEPT ![r] =
                    [phase |-> "checked", handler |-> "toggle_player_status",
                     player_id |-> player_id,
                     is_starter |-> ~Player[player_id].is_starter]]
            /\ UNCHANGED <<requests, request, flashed>>
    /\ UNCHANGED Player

\* toggle_player_status from the assignment to the response (app.py 961-968)
write_toggle_player_status(r) ==
    /\ inflight[r].phase = "checked"
    /\ inflight[r].handler = "toggle_player_status"
    /\ Player' = [Player EXCEPT ![inflight[r].player_id].is_starter =
                       inflight[r].is_starter]
    /\ inflight' = [inflight EXCEPT ![r] = [phase |-> "done"]]
    /\ Responded("toggle_player_status", Flash("success", "moved"))

\* the commit waits for the write lock of another connection longer than the
\* busy timeout (models.py 35) and the request ends with an error
write_times_out(r) ==
    /\ inflight[r].phase = "checked"
    /\ \E other \in DOMAIN inflight : other # r /\ inflight[other].phase = "checked"
    /\ inflight' = [inflight EXCEPT ![r] = [phase |-> "done"]]
    /\ Responded(inflight[r].handler, Flash("error", "database is locked"))
    /\ UNCHANGED Player

RaceReadAddPlayer ==
    /\ \E r \in DOMAIN inflight, form \in RaceAddForms : read_add_player(r, form)
    /\ UNCHANGED <<SavedRoster, LeagueSettings, TradeReport, session, evars,
                   User, cookies, issued, revoked, response,
                   utcnow>>

RaceWriteAddPlayer ==
    /\ \E r \in DOMAIN inflight : write_add_player(r)
    /\ UNCHANGED <<SavedRoster, LeagueSettings, TradeReport, session, evars,
                   User, cookies, issued, revoked, response,
                   utcnow>>

RaceReadAddFromSearch ==
    /\ \E r \in DOMAIN inflight, form \in RaceSearchForms :
          read_add_from_search(r, form)
    /\ UNCHANGED <<SavedRoster, LeagueSettings, TradeReport, evars,
                   User, cookies, issued, revoked, response,
                   utcnow>>

RaceWriteAddFromSearch ==
    /\ \E r \in DOMAIN inflight : write_add_from_search(r)
    /\ UNCHANGED <<SavedRoster, LeagueSettings, TradeReport, session, evars,
                   User, cookies, issued, revoked, response,
                   utcnow>>

RaceReadToggle ==
    /\ \E r \in DOMAIN inflight, player_id \in 1..(Len(Player) + 1) :
          read_toggle_player_status(r, player_id)
    /\ UNCHANGED <<SavedRoster, LeagueSettings, TradeReport, session, evars,
                   User, cookies, issued, revoked, response,
                   utcnow>>

RaceWriteToggle ==
    /\ \E r \in DOMAIN inflight : write_toggle_player_status(r)
    /\ UNCHANGED <<SavedRoster, LeagueSettings, TradeReport, session, evars,
                   User, cookies, issued, revoked, response,
                   utcnow>>

RaceWriteTimesOut ==
    /\ \E r \in DOMAIN inflight : write_times_out(r)
    /\ UNCHANGED <<SavedRoster, LeagueSettings, TradeReport, session, evars,
                   User, cookies, issued, revoked, response,
                   utcnow>>

RaceNext ==
    \/ RaceReadAddPlayer
    \/ RaceWriteAddPlayer
    \/ RaceReadAddFromSearch
    \/ RaceWriteAddFromSearch
    \/ RaceReadToggle
    \/ RaceWriteToggle
    \/ RaceWriteTimesOut

SpecRace == RaceInit /\ [][RaceNext]_vars

-----------------------------------------------------------------------------
(* The engine specification: a player list is drawn, and the engine's pure *)
(* functions are called on it.                                             *)

MaxPlayers == 3

\* player dicts as the engine's callers build them; a dict may lack a key
EnginePlayers ==
    {[position |-> "RB", projection |-> proj, is_starter |-> st] :
        proj \in {500, 1000}, st \in BOOLEAN}
    \cup {[position |-> "rb", projection |-> 1000, is_starter |-> st] :
              st \in BOOLEAN}
    \cup {[position |-> "K", projection |-> 500, is_starter |-> st] :
              st \in BOOLEAN}
    \cup {[position |-> "K", projection |-> -500, is_starter |-> TRUE]}
    \cup {[position |-> "RB", projection |-> 1000]}
    \cup {[position |-> "", projection |-> 1000, is_starter |-> TRUE]}
    \cup {[projection |-> 500, is_starter |-> st] : st \in BOOLEAN}

EnginePlayerLists ==
    UNION {[1..n -> EnginePlayers] : n \in 0..MaxPlayers}

ScoringKeys == {"Standard", "Half-PPR", "PPR", "Custom"}

NewPositions == {"RB", "rb", "K", "", "XX"}

EngineInit ==
    /\ e_players \in EnginePlayerLists
    /\ e_after = IF e_players = <<>> THEN <<>> ELSE Tail(e_players)
    /\ e_call = [fn |-> "none"]
    /\ Player = <<>>
    /\ SavedRoster = <<>>
    /\ LeagueSettings = <<>>
    /\ TradeReport = <<>>
    /\ session = <<>>
    /\ flashed = <<>>
    /\ requests = 0
    /\ AuxInit
    /\ request = <<>>

\* the mutant of ArgumentAfterCall: the function pops the players it handles
ArgumentConsumed(players) == <<>>

\* an argument list once a call has returned: the engine functions iterate
\* over the list and read its dicts with .get(); what they assign to, append
\* to and sort are dicts and lists they created themselves
ArgumentAfterCall(players) == players

\* one call of an engine function: the result, or the exception it ends with
call_calculate_player_score ==
    /\ e_call.fn = "none"
    /\ \E i \in DOMAIN e_players, scoring_type \in ScoringKeys :
          e_call' = IF Raised(<<e_players[i]>>) # <<>>
                    THEN [fn |-> "calculate_player_score", index |-> i,
                          scoring_type |-> scoring_type,
                          raised |-> Raised(<<e_players[i]>>)[1]]
                    ELSE [fn |-> "calculate_player_score", index |-> i,
                          scoring_type |-> scoring_type,
                          result |-> calculate_player_score(e_players[i],
                                                            scoring_type)]
    /\ e_players' = ArgumentAfterCall(e_players)
    /\ e_after' = ArgumentAfterCall(e_after)
    /\ UNCHANGED <<appvars, auxvars>>

call_team_strength_v3 ==
    /\ e_call.fn = "none"
    /\ \E scoring_type \in ScoringKeys :
          e_call' = IF Raised(e_players) # <<>>
                    THEN [fn |-> "team_strength_v3",
                          scoring_type |-> scoring_type,
                          raised |-> Raised(e_players)[1]]
                    ELSE [fn |-> "team_strength_v3",
                          scoring_type |-> scoring_type,
                          result |-> team_strength_v3(e_players, scoring_type)]
    /\ e_players' = ArgumentAfterCall(e_players)
    /\ e_after' = ArgumentAfterCall(e_after)
    /\ UNCHANGED <<appvars, auxvars>>

call_position_breakdown_v3 ==
    /\ e_call.fn = "none"
    /\ \E scoring_type \in ScoringKeys :
          e_call' = IF Raised(e_players) # <<>>
                    THEN [fn |-> "position_breakdown_v3",
                          scoring_type |-> scoring_type,
                          raised |-> Raised(e_players)[1]]
                    ELSE [fn |-> "position_breakdown_v3",
                          scoring_type |-> scoring_type,
                          result |-> position_breakdown_v3(e_players,
                                                           scoring_type)]
    /\ e_players' = ArgumentAfterCall(e_players)
    /\ e_after' = ArgumentAfterCall(e_after)
    /\ UNCHANGED <<appvars, auxvars>>

call_validate_lineup ==
    /\ e_call.fn = "none"
    /\ e_call' = [fn |-> "validate_lineup",
                  result |-> validate_lineup(e_players)]
    /\ e_players' = ArgumentAfterCall(e_players)
    /\ e_after' = ArgumentAfterCall(e_after)
    /\ UNCHANGED <<appvars, auxvars>>

call_can_add_starter ==
    /\ e_call.fn = "none"
    /\ \E new_position \in NewPositions :
          e_call' = [fn |-> "can_add_starter",
                     new_position |-> new_position,
                     result |-> can_add_starter(e_players, new_position)]
    /\ e_players' = ArgumentAfterCall(e_players)
    /\ e_after' = ArgumentAfterCall(e_after)
    /\ UNCHANGED <<appvars, auxvars>>

\* the suggestions for giving away the first player of the list
call_generate_trade_suggestions ==
    /\ e_call.fn = "none"
    /\ \E scoring_type \in ScoringKeys :
          e_call' = IF Raised(e_players) # <<>>
                    THEN [fn |-> "generate_trade_suggestions",
                          scoring_type |-> scoring_type,
                          raised |-> Raised(e_players)[1]]
                    ELSE [fn |-> "generate_trade_suggestions",
                          scoring_type |-> scoring_type,
                          result |-> generate_trade_suggestions(
                                         e_players, e_after, scoring_type)]
    /\ e_players' = ArgumentAfterCall(e_players)
    /\ e_after' = ArgumentAfterCall(e_after)
    /\ UNCHANGED <<appvars, auxvars>>

EngineNext ==
    \/ call_calculate_player_score
    \/ call_team_strength_v3
    \/ call_position_breakdown_v3
    \/ call_validate_lineup
    \/ call_can_add_starter
    \/ call_generate_trade_suggestions

SpecEngine == EngineInit /\ [][EngineNext]_vars

\* player dicts as heterogeneous upstream data delivers them: the projection
\* a string (numeric or not) or missing, the position missing
MalformedPlayers ==
    {[position |-> "RB", projection_text |-> "abc", is_starter |-> TRUE],
     [position |-> "RB", projection_text |-> "10.00", is_starter |-> TRUE],
     [position |-> "RB", projection_text |-> "", is_starter |-> FALSE],
     [position |-> "K", is_starter |-> TRUE],
     [projection |-> 1000, is_starter |-> TRUE],
     [projection_text |-> "abc", is_starter |-> FALSE]}

MalformedInit ==
    /\ e_players \in UNION {[1..n -> MalformedPlayers] : n \in 0..MaxPlayers}
    /\ e_after = IF e_players = <<>> THEN <<>> ELSE Tail(e_players)
    /\ e_call = [fn |-> "none"]
    /\ Player = <<>>
    /\ SavedRoster = <<>>
    /\ LeagueSettings = <<>>
    /\ TradeReport = <<>>
    /\ session = <<>>
    /\ flashed = <<>>
    /\ requests = 0
    /\ AuxInit
    /\ request = <<>>

SpecMalformed == MalformedInit /\ [][EngineNext]_vars

\* The suggestions specification: a roster before a trade and a roster after
\* it are drawn independently, at most one player per position, and
\* _generate_trade_suggestions is called on the pair.
MaxPositions == 4

SuggestPositions == <<"QB", "RB", "WR", "K", "TE">>

\* what the roster after the trade can hold at a position: nothing, a
\* starter projected 10.00, a weaker starter (5.00; the kicker 0.01, whose
\* score 0.0045 rounds to 0.00), or a bench player projected 10.00
SlotOptions(position) ==
    {<<>>,
     <<[position |-> position, projection |-> 1000, is_starter |-> TRUE]>>,
     <<[position |-> position,
        projection |-> IF position = "K" THEN 1 ELSE 500,
        is_starter |-> TRUE]>>,
     <<[position |-> position, projection |-> 1000, is_starter |-> FALSE]>>}

\* what the roster before the trade can hold at a position: nothing, the
\* starter projected 10.00, or the bench player projected 10.00
SlotOptionsBefore(position) ==
    {slot \in SlotOptions(position) :
        slot # <<>> => slot[1].projection = 1000}

RECURSIVE SlotLists(_, _)
SlotLists(n, before) ==
    IF n = 0 THEN {<<>>}
    ELSE {l \o slot : l \in SlotLists(n - 1, before),
                      slot \in IF before
                               THEN SlotOptionsBefore(SuggestPositions[n])
                               ELSE SlotOptions(SuggestPositions[n])}

SuggestInit ==
    /\ e_players \in SlotLists(MaxPositions, TRUE)
    /\ e_after \in SlotLists(MaxPositions, FALSE)
    /\ e_call = [fn |-> "none"]
    /\ Player = <<>>
    /\ SavedRoster = <<>>
    /\ LeagueSettings = <<>>
    /\ TradeReport = <<>>
    /\ session = <<>>
    /\ flashed = <<>>
    /\ requests = 0
    /\ AuxInit
    /\ request = <<>>

SuggestNext == call_generate_trade_suggestions

SpecSuggest == SuggestInit /\ [][SuggestNext]_vars

\* The lineup specification: the roster after a trade holds several players
\* at one position (the roster before it is empty), and
\* _generate_trade_suggestions is called on it.
MaxAfter == 3

AfterPlayers ==
    {[name |-> "Ann", position |-> "K", projection |-> 1000, is_starter |-> TRUE],
     [name |-> "Bo", position |-> "K", projection |-> 500, is_starter |-> TRUE],
     [name |-> "Cy", position |-> "K", projection |-> 1000, is_starter |-> FALSE],
     [name |-> "Zed", position |-> "K", projection |-> 700, is_starter |-> FALSE],
     [name |-> "Fay", position |-> "K", projection |-> 200, is_starter |-> FALSE],
     [name |-> "Dee", position |-> "RB", projection |-> 500, is_starter |-> TRUE],
     [name |-> "Eve", position |-> "rb", projection |-> 1000, is_starter |-> FALSE],
     [name |-> "Gus", position |-> "QB", projection |-> 1000, is_starter |-> TRUE]}

\* a roster with one starter at every position of POSITION_LIMITS
FullLineup ==
    [i \in DOMAIN POSITION_LIMITS_keys |->
        [name |-> "Gus", position |-> POSITION_LIMITS_keys[i],
         projection |-> 1000, is_starter |-> TRUE]]

AfterInit ==
    /\ e_players = <<>>
    /\ e_after \in UNION {[1..n -> AfterPlayers] : n \in 0..MaxAfter}
                     \cup {FullLineup}
    /\ e_call = [fn |-> "none"]
    /\ Player = <<>>
    /\ SavedRoster = <<>>
    /\ LeagueSettings = <<>>
    /\ TradeReport = <<>>
    /\ session = <<>>
    /\ flashed = <<>>
    /\ requests = 0
    /\ AuxInit
    /\ request = <<>>

AfterNext == call_generate_trade_suggestions

SpecAfter == AfterInit /\ [][AfterNext]_vars

-----------------------------------------------------------------------------
(* The sharing specification: a second user (user_id 2) saves, lists and   *)
(* unlists rosters of their own, while the first user looks at the trade    *)
(* page, fetches saved rosters and sends trades.                            *)

\* the Player rows of the second user: what their save_current_roster stores
OtherPlayers ==
    <<[name |-> "Bo", position |-> "QB", projection |-> 2000,
       is_starter |-> TRUE]>>

\* POST /rosters/save with session['user_id'] = 2
other_save_current_roster(roster_name) ==
    /\ SavedRoster' = Append(SavedRoster,
            [user_id |-> 2, name |-> roster_name,
             players_json |-> OtherPlayers, is_public |-> FALSE])
    /\ flashed' = Flash("success", "saved")

\* POST /rosters/<id>/list with session['user_id'] = 2
other_list_saved_roster(roster_id) ==
    IF roster_id \notin DOMAIN SavedRoster \/ SavedRoster[roster_id].user_id # 2
    THEN /\ flashed' = Flash("error", "cannot list")
         /\ UNCHANGED SavedRoster
    ELSE /\ SavedRoster' = [SavedRoster EXCEPT ![roster_id].is_public = TRUE]
         /\ flashed' = Flash("success", "listed")

\* POST /rosters/<id>/unlist with session['user_id'] = 2
other_unlist_saved_roster(roster_id) ==
    IF roster_id \notin DOMAIN SavedRoster \/ SavedRoster[roster_id].user_id # 2
    THEN /\ flashed' = Flash("error", "cannot unlist")
         /\ UNCHANGED SavedRoster
    ELSE /\ SavedRoster' = [SavedRoster EXCEPT ![roster_id].is_public = FALSE]
         /\ flashed' = Flash("info", "unlisted")

\* GET /trade: the user's own saved rosters and, of the other users' ones,
\* those that are listed (the ids, in no order)
trade_page ==
    response' =
        [status |-> 200,
         my_rosters |-> {id \in DOMAIN SavedRoster :
                            SavedRoster[id].user_id = 1},
         public_rosters |-> {id \in DOMAIN SavedRoster :
                                /\ SavedRoster[id].is_public
                                /\ SavedRoster[id].user_id # 1}]

\* GET /rosters/<id>/players_json: the saved roster is selected by its id
roster_players_json(roster_id) ==
    response' =
        IF roster_id \notin DOMAIN SavedRoster
        THEN [status |-> 404, players |-> <<>>]
        ELSE LET players == SavedRoster[roster_id].players_json
             IN  [status |-> 200,
                  players |-> [i \in DOMAIN players |->
                      [name |-> players[i].name,
                       position |-> players[i].position,
                       projection |-> players[i].projection,
                       is_starter |-> players[i].is_starter]]]

OtherSaveCurrentRoster ==
    /\ Handled([handler |-> "save_current_roster", user_id |-> 2])
    /\ other_save_current_roster("Theirs")
    /\ UNCHANGED <<Player, LeagueSettings, TradeReport, session, evars, auxvars>>

OtherListSavedRoster ==
    /\ \E roster_id \in 1..(Len(SavedRoster) + 1) :
          /\ Handled([handler |-> "list_saved_roster", user_id |-> 2,
                      roster_id |-> roster_id])
          /\ other_list_saved_roster(roster_id)
    /\ UNCHANGED <<Player, LeagueSettings, TradeReport, session, evars, auxvars>>

OtherUnlistSavedRoster ==
    /\ \E roster_id \in 1..(Len(SavedRoster) + 1) :
          /\ Handled([handler |-> "unlist_saved_roster", user_id |-> 2,
                      roster_id |-> roster_id])
          /\ other_unlist_saved_roster(roster_id)
    /\ UNCHANGED <<Player, LeagueSettings, TradeReport, session, evars, auxvars>>

TradePage ==
    /\ Handled([handler |-> "trade_page"])
    /\ trade_page
    /\ flashed' = <<>>
    /\ UNCHANGED <<dbvars, session, evars, inflight, User, cookies, issued,
                   revoked, utcnow>>

RosterPlayersJson ==
    /\ \E roster_id \in 1..(Len(SavedRoster) + 1) :
          /\ Handled([handler |-> "roster_players_json",
                      roster_id |-> roster_id])
          /\ roster_players_json(roster_id)
    /\ flashed' = <<>>
    /\ UNCHANGED <<dbvars, session, evars, inflight, User, cookies, issued,
                   revoked, utcnow>>

\* the trades of the sharing specification: a player is given, or one is
\* asked of the selected roster, or both; no live projection is at hand
SharingGiveForms == {<<"">>, <<" Ann", "">>}

SharingReceiveForms == {<<"">>, <<"Bo">>}

SharingTradeAnalyze ==
    /\ \E other_roster_id \in RosterIdForms, give \in SharingGiveForms,
          receive \in SharingReceiveForms :
          /\ Handled([handler |-> "trade_analyze",
                      other_roster_id |-> other_roster_id,
                      give |-> give, receive |-> receive, live |-> <<>>])
          /\ trade_analyze(other_roster_id, give, receive, <<>>)
    /\ UNCHANGED <<evars, auxvars>>

SharingNext ==
    \/ AddPlayer
    \/ SaveCurrentRoster
    \/ OtherSaveCurrentRoster
    \/ OtherListSavedRoster
    \/ OtherUnlistSavedRoster
    \/ TradePage
    \/ RosterPlayersJson
    \/ SharingTradeAnalyze

SpecSharing == Init /\ [][SharingNext]_vars

-----------------------------------------------------------------------------
(* auth/routes.py: login, logout and the login_required decorator.  A       *)
(* remember-me token is a positive number (secrets.token_urlsafe yields a   *)
(* new one each time), 0 stands for no cookie and for a NULL column.  The   *)
(* clock bounds the behaviours; the request counter is not kept here.       *)

\* the remember-me tokens generated in a behaviour
MaxTokens == 2

\* the minutes the clock runs
MaxMinutes == 62

\* current_app.config.get('SESSION_TIMEOUT_MINUTES', 30)
SESSION_TIMEOUT_MINUTES == 30

\* hashlib.sha256(token.encode()).hexdigest(): one digest per token, and no
\* digest is a token
hash_remember_token(token) == 0 - token

\* check_remember_me(): the user whose stored digest is the digest of the
\* cookie, as a list of none or one
check_remember_me(remember_token) ==
    IF remember_token = 0 THEN <<>>
    ELSE IF User.remember_token = hash_remember_token(remember_token)
         THEN <<User>>
         ELSE <<>>

\* session['user_id'] = ...; session['last_activity'] = utcnow: the session
\* a remember-me cookie opens
Restored(sess) == [user_id |-> 1, last_activity |-> utcnow] @@ sess

\* GET or POST /auth/login
login(method, password_ok, remember_me) ==
    IF /\ "user_id" \notin DOMAIN session
       /\ check_remember_me(cookies.remember_token) # <<>>
    THEN /\ session' = Restored(session)
         /\ flashed' = Flash("success", "Welcome back")
         /\ UNCHANGED <<User, cookies, issued>>
    ELSE IF method = "POST" /\ password_ok
    THEN /\ session' = [user_id |-> 1, last_activity |-> utcnow]
         /\ flashed' = Flash("success", "Welcome back")
         /\ IF remember_me
            THEN /\ issued' = issued + 1
                 /\ User' = [User EXCEPT !.remember_token =
                                 hash_remember_token(issued + 1)]
                 /\ cookies' = [cookies EXCEPT !.remember_token = issued + 1]
            ELSE UNCHANGED <<User, cookies, issued>>
    ELSE /\ flashed' = IF method = "POST"
                       THEN Flash("error", "Invalid email or password")
                       ELSE <<>>
         /\ UNCHANGED <<session, User, cookies, issued>>

\* GET /auth/logout
logout ==
    /\ User' = IF "user_id" \in DOMAIN session
               THEN [User EXCEPT !.remember_token = 0]
               ELSE User
    /\ session' = <<>>
    /\ cookies' = [cookies EXCEPT !.remember_token = 0]
    /\ flashed' = Flash("info", "You have been logged out")

\* a request to a route behind @login_required (the view itself writes
\* nothing that the decorator reads)
login_required ==
    LET remembered == check_remember_me(cookies.remember_token)
        entered == IF "user_id" \in DOMAIN session
                   THEN session ELSE Restored(session)
    IN  IF "user_id" \notin DOMAIN session /\ remembered = <<>>
        THEN /\ flashed' = Flash("error", "Please login")
             /\ UNCHANGED session
        ELSE IF /\ "last_activity" \in DOMAIN entered
                /\ utcnow - entered.last_activity > SESSION_TIMEOUT_MINUTES
        THEN /\ session' = <<>>
             /\ flashed' = Flash("warning", "Your session has expired")
        ELSE /\ session' = ("last_activity" :> utcnow) @@ entered
             /\ flashed' = <<>>

\* the state the login specification leaves alone
authframe == <<dbvars, requests, evars, inflight, response>>

Login ==
    /\ \E method \in {"GET", "POST"}, password_ok \in BOOLEAN,
          remember_me \in IF issued < MaxTokens THEN BOOLEAN ELSE {FALSE} :
          /\ request' = [handler |-> "login", method |-> method,
                         remember_me |-> remember_me]
          /\ login(method, password_ok, remember_me)
    /\ UNCHANGED <<authframe, revoked, utcnow>>

\* every token issued so far was issued before this logout
Logout ==
    /\ request' = [handler |-> "logout"]
    /\ logout
    /\ revoked' = 1..issued
    /\ UNCHANGED <<authframe, issued, utcnow>>

ProtectedRequest ==
    /\ request' = [handler |-> "login_required"]
    /\ login_required
    /\ UNCHANGED <<authframe, User, cookies, issued, revoked, utcnow>>

\* a minute passes, or as many as the session timeout allows
TimePasses ==
    /\ \E minutes \in {1, SESSION_TIMEOUT_MINUTES} :
          /\ utcnow + minutes <= MaxMinutes
          /\ utcnow' = utcnow + minutes
    /\ UNCHANGED <<appvars, evars, inflight, User, cookies, issued, revoked,
                   response>>

AuthNext ==
    \/ Login
    \/ Logout
    \/ ProtectedRequest
    \/ TimePasses

SpecAuth == Init /\ [][AuthNext]_vars

-----------------------------------------------------------------------------
(* Properties of the engine functions *)

\* the sum of a function over a finite set of indices
RECURSIVE SumOver(_, _, _)
SumOver(S, players, scoring_type) ==
    IF S = {} THEN 0
    ELSE LET i == CHOOSE x \in S : TRUE
         IN  calculate_player_score(players[i], scoring_type)
               + SumOver(S \ {i}, players, scoring_type)

StarterIdx(players) == {i \in DOMAIN players : StarterFlag(players[i])}

BenchIdx(players) == {i \in DOMAIN players : ~StarterFlag(players[i])}

\* the starters of a list at an (uppercased) position
StartersAt(players, position) ==
    {i \in StarterIdx(players) : NormPosition(players[i]) = position}

\* the positions a list or a call can name, uppercased
SeenPositions(players) ==
    {NormPosition(players[i]) : i \in DOMAIN players}
      \cup {Upper(p) : p \in NewPositions} \cup DOMAIN POSITION_LIMITS

\* C8: team_strength_v3 partitions the players by is_starter: the starter
\* total is the sum of the starters' scores, the bench total the sum of the
\* others', so the two add up to the sum of calculate_player_score over all
\* players; the empty list gives (0.0, 0.0).
C8_PartitionSumsToWhole ==
    e_call.fn = "team_strength_v3" =>
        LET r == e_call.result
            st == e_call.scoring_type
        IN  /\ r[1] = SumOver(StarterIdx(e_players), e_players, st)
            /\ r[2] = SumOver(BenchIdx(e_players), e_players, st)
            /\ r[1] + r[2] = SumOver(DOMAIN e_players, e_players, st)
            /\ e_players = <<>> => r = <<0, 0>>

C8_Witness ==
    /\ e_call.fn = "team_strength_v3"
    /\ StarterIdx(e_players) # {}
    /\ BenchIdx(e_players) # {}
    /\ e_call.result[1] > 0
    /\ e_call.result[2] > 0

\* C9: validate_lineup counts starters per uppercased position and reports
\* exactly one violation {position, current, limit, excess = current - limit}
\* for each position whose starter count exceeds its limit (limit 1 when the
\* position is not in the table), none for any other position; valid is true
\* iff there is no violation.
C9_ViolationsExactlyOverLimit ==
    e_call.fn = "validate_lineup" =>
        LET v == e_call.result
        IN  /\ \A position \in SeenPositions(e_players) :
                  LET current == Cardinality(StartersAt(e_players, position))
                      limit == Get(POSITION_LIMITS, position, 1)
                      reported == {j \in DOMAIN v.violations :
                                      v.violations[j].position = position}
                  IN  IF current > limit
                      THEN /\ Cardinality(reported) = 1
                           /\ \A j \in reported :
                                 v.violations[j] =
                                    [position |-> position, current |-> current,
                                     limit |-> limit, excess |-> current - limit]
                      ELSE reported = {}
            /\ \A j \in DOMAIN v.violations :
                  v.violations[j].position \in SeenPositions(e_players)
            /\ v.valid <=> (v.violations = <<>>)

\* Scenario E: three RB starters against a limit of two
C9_Witness ==
    /\ e_call.fn = "validate_lineup"
    /\ Cardinality(StartersAt(e_players, "RB")) = 3
    /\ e_call.result.violations =
          <<[position |-> "RB", current |-> 3, limit |-> 2, excess |-> 1]>>
    /\ ~e_call.result.valid

ScenarioB ==
    <<[position |-> "RB", projection |-> 1000, is_starter |-> TRUE],
      [position |-> "RB", projection |-> 1000, is_starter |-> TRUE],
      [position |-> "RB", projection |-> 500, is_starter |-> FALSE]>>

\* C10: can_add_starter is true iff the number of starters of the roster at
\* the (uppercased) position, as validate_lineup counts them, is strictly
\* below the position's limit; with two RB starters validate_lineup reports no
\* violation and can_add_starter(roster, "RB") is false.
C10_CanAddIffBelowLimit ==
    /\ e_call.fn = "can_add_starter" =>
          LET position == Upper(e_call.new_position)
              counted == Get(validate_lineup(e_players).starter_counts, position, 0)
          IN  /\ counted = Cardinality(StartersAt(e_players, position))
              /\ e_call.result <=>
                    Cardinality(StartersAt(e_players, position))
                       < Get(POSITION_LIMITS, position, 1)
    /\ (e_players = ScenarioB /\ e_call.fn = "can_add_starter"
          /\ e_call.new_position = "RB") =>
          (validate_lineup(e_players).valid /\ ~e_call.result)

C10_Witness ==
    /\ e_players = ScenarioB
    /\ e_call.fn = "can_add_starter"
    /\ e_call.new_position = "RB"
    /\ e_call.result = FALSE
    /\ validate_lineup(e_players).violations = <<>>

-----------------------------------------------------------------------------
(* Properties of trade_analyze *)

TradeHandled(req) == req # <<>> /\ req.handler = "trade_analyze"

\* the names a form field holds once blank entries are trimmed away
Named(segments) ==
    LET NonBlank(x) == x # ""
    IN  SelectSeq([k \in DOMAIN segments |-> Strip(segments[k])], NonBlank)

NameMatches(entry, n) == Upper(entry.name) = Upper(n)

InRoster(n) == \E i \in DOMAIN Player : NameMatches(Player[i], n)

PoolSelected(req) ==
    /\ ParseInt(req.other_roster_id) # <<>>
    /\ ParseInt(req.other_roster_id)[1] \in DOMAIN SavedRoster

Pool(req) == SavedRoster[ParseInt(req.other_roster_id)[1]].players_json

InPool(req, n) == \E i \in DOMAIN Pool(req) : NameMatches(Pool(req)[i], n)

MissingGive(req) ==
    LET Absent(n) == ~InRoster(n) IN SelectSeq(Named(req.give), Absent)

MissingReceive(req) ==
    LET Absent(n) == ~InPool(req, n) IN SelectSeq(Named(req.receive), Absent)

GiveNotFound(names) == FlashNames("error", "give players not found", names)

ReceiveNotFound(names) == FlashNames("error", "receive players not found", names)

Analyzed == flashed # <<>> /\ flashed[1].message = "Trade analysis"

\* C1: every stored trade result, and the one shown, has rationale Accept
\* exactly when its rounded delta is positive, Reject exactly when it is
\* negative and Neutral exactly when it is zero, the delta being the rounded
\* after-minus-before value
C1_RationaleMatchesDeltaSign ==
    /\ \A i \in DOMAIN TradeReport :
          LET r == TradeReport[i]
          IN  /\ r.delta = Round2(r.after_strength - r.before_strength)
              /\ r.rationale.delta = r.delta
              /\ (r.rationale.rationale = "Accept") <=> (r.delta > 0)
              /\ (r.rationale.rationale = "Reject") <=> (r.delta < 0)
              /\ (r.rationale.rationale = "Neutral") <=> (r.delta = 0)
    /\ Analyzed =>
          LET d == flashed[1].detailed
          IN  /\ (d.rationale = "Accept") <=> (d.delta > 0)
              /\ (d.rationale = "Reject") <=> (d.delta < 0)
              /\ (d.rationale = "Neutral") <=> (d.delta = 0)

\* a Neutral result and an Accept or Reject one are both stored
C1_Witness ==
    \E i, j \in DOMAIN TradeReport :
        /\ TradeReport[i].rationale.rationale \in {"Accept", "Reject"}
        /\ TradeReport[j].rationale.rationale = "Neutral"

\* session.get('last_trade_result'), as a list of none or one
LastTradeResult(sess) ==
    IF "last_trade_result" \in DOMAIN sess
    THEN <<sess.last_trade_result>> ELSE <<>>

C1_WitnessAccept ==
    \E i \in DOMAIN TradeReport : TradeReport[i].rationale.rationale = "Accept"

C1_WitnessReject ==
    \E i \in DOMAIN TradeReport : TradeReport[i].rationale.rationale = "Reject"

\* C2: a trade request whose give and receive fields hold no name once blank
\* entries are trimmed is answered with a warning or an error, adds no
\* TradeReport row and leaves the session's last_trade_result alone
C2_EmptyTradeRejected ==
    [][(/\ TradeHandled(request')
        /\ Named(request'.give) = <<>>
        /\ Named(request'.receive) = <<>>)
       => /\ flashed'[1].category \in {"warning", "error"}
          /\ TradeReport' = TradeReport
          /\ LastTradeResult(session') = LastTradeResult(session)]_vars

\* an empty trade is sent with a roster and a counterparty roster in place
C2_Witness ==
    /\ TradeHandled(request)
    /\ Named(request.give) = <<>>
    /\ Named(request.receive) = <<>>
    /\ Player # <<>>
    /\ PoolSelected(request)
    /\ flashed = Flash("warning", "enter player names")
    /\ TradeReport = <<>>

\* C3 as stated: whenever a give name has no case-insensitive match in the
\* roster, the request fails with the give-player-not-found failure naming
\* exactly the missing give names, and no TradeReport row is added
C3_Original ==
    [][(TradeHandled(request') /\ MissingGive(request') # <<>>)
       => /\ flashed' = GiveNotFound(MissingGive(request'))
          /\ TradeReport' = TradeReport]_vars

\* C3: when the roster is not empty and the selected counterparty roster
\* exists, a give name without a case-insensitive match in the roster makes
\* the request fail with the give-player-not-found failure naming exactly the
\* missing give names, and no TradeReport row is added
C3_MissingGiveNamed ==
    [][(/\ TradeHandled(request')
        /\ Player # <<>>
        /\ PoolSelected(request')
        /\ MissingGive(request') # <<>>)
       => /\ flashed' = GiveNotFound(MissingGive(request'))
          /\ TradeReport' = TradeReport
          /\ LastTradeResult(session') = LastTradeResult(session)]_vars

\* of two give names one is in the roster and only the other one is named
C3_Witness ==
    /\ TradeHandled(request)
    /\ Len(Named(request.give)) = 2
    /\ InRoster(Named(request.give)[1])
    /\ flashed = GiveNotFound(<<Named(request.give)[2]>>)

\* C4 as stated: with a roster and a counterparty pool in place, whenever a
\* receive name has no case-insensitive match in the pool the request fails
\* with the receive-player-not-found failure naming the missing receive
\* names, and no TradeReport row is added, also when give names are missing
C4_Original ==
    [][(/\ TradeHandled(request')
        /\ Player # <<>>
        /\ PoolSelected(request')
        /\ MissingReceive(request') # <<>>)
       => /\ flashed' = ReceiveNotFound(MissingReceive(request'))
          /\ TradeReport' = TradeReport]_vars

\* the request fails one of the validations of trade_analyze
FailsValidation(req) ==
    \/ Player = <<>>
    \/ ~PoolSelected(req)
    \/ Named(req.give) = <<>> /\ Named(req.receive) = <<>>
    \/ MissingGive(req) # <<>>
    \/ MissingReceive(req) # <<>>

\* C5: a trade request that fails a validation adds no TradeReport row and
\* changes neither the stored roster, the saved rosters nor the session's
\* last_trade_result
C5_FailedValidationAppliesNothing ==
    [][(TradeHandled(request') /\ FailsValidation(request'))
       => /\ flashed'[1].category \in {"warning", "error"}
          /\ TradeReport' = TradeReport
          /\ Player' = Player
          /\ SavedRoster' = SavedRoster
          /\ LastTradeResult(session') = LastTradeResult(session)]_vars

\* a trade fails on a missing name after an earlier trade was analyzed
C5_Witness ==
    /\ TradeHandled(request)
    /\ flashed[1].category = "error"
    /\ "names" \in DOMAIN flashed[1]
    /\ Len(TradeReport) = 1
    /\ "last_trade_result" \in DOMAIN session
    /\ Player # <<>>

\* the scoring preset a trade request is scored with
TradeScoring ==
    IF LeagueSettings # <<>> THEN LeagueSettings[1].scoring_type ELSE "PPR"

StarterTotal(entries) == SumOver(StarterIdx(entries), entries, TradeScoring)

FirstMatch(items, n) ==
    CHOOSE i \in DOMAIN items :
        /\ NameMatches(items[i], n)
        /\ \A j \in DOMAIN items : NameMatches(items[j], n) => i <= j

\* the list without its first entry matching the name
RemoveFirst(items, n) ==
    IF \E i \in DOMAIN items : NameMatches(items[i], n)
    THEN LET f == FirstMatch(items, n)
         IN  SubSeq(items, 1, f - 1) \o SubSeq(items, f + 1, Len(items))
    ELSE items

\* the players a valid request gives: per give name the first matching entry
Given(req) ==
    LET mine == ToInput(req.live, Player)
    IN  [k \in DOMAIN Named(req.give) |->
            mine[FirstMatch(mine, Named(req.give)[k])]]

\* the players a valid request receives: per receive name the first matching
\* entry of the counterparty pool
Received(req) ==
    LET pool == ToInput(req.live, Pool(req))
    IN  [k \in DOMAIN Named(req.receive) |->
            pool[FirstMatch(pool, Named(req.receive)[k])]]

\* postRoster = (myRoster minus the first match of each give name) plus the
\* received players
PostRoster(req) ==
    FoldSeq(RemoveFirst, ToInput(req.live, Player), Named(req.give))
        \o Received(req)

AllBench(entries) == \A k \in DOMAIN entries : ~entries[k].is_starter

\* C6 as stated: a valid trade stores the starter total of the roster as
\* before_strength and the rounded after-minus-before value as delta, and
\* when every given and every received player is flagged bench the delta is
\* 0 and the rationale Neutral
C6_Original ==
    [][(TradeHandled(request') /\ ~FailsValidation(request'))
       => LET r == TradeReport'[Len(TradeReport')]
          IN  /\ Len(TradeReport') = Len(TradeReport) + 1
              /\ r.before_strength
                    = StarterTotal(ToInput(request'.live, Player))
              /\ r.delta = Round2(r.after_strength - r.before_strength)
              /\ (AllBench(Given(request')) /\ AllBench(Received(request')))
                    => r.delta = 0 /\ r.rationale.rationale = "Neutral"]_vars

\* C7 as stated: the post-trade roster of a valid trade is the roster without
\* the first case-insensitive match of each give name, followed by the first
\* case-insensitive match in the pool of each receive name
C7_Original ==
    [][(TradeHandled(request') /\ ~FailsValidation(request'))
       => TradeOutcome(request'.other_roster_id, request'.give,
                       request'.receive, request'.live).my_post
            = PostRoster(request')]_vars

\* the player a calculate_player_score call was made on
Called == e_players[e_call.index]

\* C12: for every preset key, known or not, and every player whose
\* projection is not negative, calculate_player_score returns projection x
\* weight of the position + average receptions of the position x reception
\* bonus of the preset (of PPR for an unknown key), and this is not negative
C12_ScoreFormulaNonNegative ==
    (e_call.fn = "calculate_player_score"
        /\ Get(Called, "projection", 0) >= 0) =>
        LET position == NormPosition(Called)
            bonus == IF e_call.scoring_type \in DOMAIN SCORING_PRESETS
                     THEN SCORING_PRESETS[e_call.scoring_type].reception_bonus
                     ELSE 10
        IN  /\ e_call.result =
                  Get(Called, "projection", 0) * Get(POSITION_WEIGHTS, position, 100)
                    + get_avg_receptions_by_position(position) * bonus * 100
            /\ e_call.result >= 0

\* an RB is scored under Half-PPR: 10.00 x 1.08 + 3.5 x 0.5 = 12.55
C12_Witness ==
    /\ e_call.fn = "calculate_player_score"
    /\ e_call.scoring_type = "Half-PPR"
    /\ NormPosition(Called) = "RB"
    /\ Get(Called, "projection", 0) = 1000
    /\ e_call.result = 125500

-----------------------------------------------------------------------------
(* Properties of the engine on malformed data *)

\* the projection is a string that is not a number
MalformedProjection(player) ==
    /\ "projection_text" \in DOMAIN player
    /\ player.projection_text \notin {"", "10.00", "0.01"}

\* the player with the defaults filled in: projection 0 when absent or
\* malformed, position "UNK" when absent
Defaulted(player) ==
    [position |-> IF "position" \in DOMAIN player THEN player.position ELSE "UNK",
     projection |-> IF "projection" \in DOMAIN player THEN player.projection
                    ELSE IF "projection_text" \in DOMAIN player
                            /\ player.projection_text = "10.00" THEN 1000
                    ELSE 0,
     is_starter |-> StarterFlag(player)]

DefaultedList(players) == [i \in DOMAIN players |-> Defaulted(players[i])]

\* C11 as stated: no call of calculate_player_score, team_strength_v3,
\* position_breakdown_v3 or validate_lineup ends with an exception, and each
\* returns what it returns for the players with the defaults filled in
\* (projection 0 when absent or not a number, position "UNK" when absent)
C11_Original ==
    e_call.fn \in {"calculate_player_score", "team_strength_v3",
                   "position_breakdown_v3", "validate_lineup"} =>
        /\ "raised" \notin DOMAIN e_call
        /\ LET filled == DefaultedList(e_players)
           IN  e_call.result =
                 CASE e_call.fn = "calculate_player_score" ->
                        calculate_player_score(filled[e_call.index],
                                               e_call.scoring_type)
                   [] e_call.fn = "team_strength_v3" ->
                        team_strength_v3(filled, e_call.scoring_type)
                   [] e_call.fn = "position_breakdown_v3" ->
                        position_breakdown_v3(filled, e_call.scoring_type)
                   [] e_call.fn = "validate_lineup" ->
                        validate_lineup(filled)

-----------------------------------------------------------------------------
(* Properties of the scoring preset in a trade *)

\* what the trade request handled last computed
LastOutcome ==
    TradeOutcome(request.other_roster_id, request.give, request.receive,
                 request.live)

LastReport == TradeReport[Len(TradeReport)]

UnknownPreset ==
    /\ LeagueSettings # <<>>
    /\ LeagueSettings[1].scoring_type \notin {"Standard", "Half-PPR", "PPR"}

\* C13: when the league's scoring key is none of Standard, Half-PPR, PPR, a
\* trade is analyzed without error and every engine result on its rosters
\* (player scores, team strengths, breakdowns) and the stored before, after
\* and delta equal those computed with the PPR preset
C13_UnknownPresetIsPPR ==
    (TradeHandled(request) /\ ~FailsValidation(request) /\ UnknownPreset) =>
        LET key == LeagueSettings[1].scoring_type
            before == LastOutcome.my_input
            after == LastOutcome.my_post
        IN  /\ Analyzed
            /\ \A i \in DOMAIN before :
                  calculate_player_score(before[i], key)
                    = calculate_player_score(before[i], "PPR")
            /\ team_strength_v3(before, key) = team_strength_v3(before, "PPR")
            /\ team_strength_v3(after, key) = team_strength_v3(after, "PPR")
            /\ position_breakdown_v3(before, key)
                  = position_breakdown_v3(before, "PPR")
            /\ position_breakdown_v3(after, key)
                  = position_breakdown_v3(after, "PPR")
            /\ LastReport.before_strength = team_strength_v3(before, "PPR")[1]
            /\ LastReport.after_strength = team_strength_v3(after, "PPR")[1]
            /\ LastReport.delta =
                  Round2(team_strength_v3(after, "PPR")[1]
                           - team_strength_v3(before, "PPR")[1])

\* under the key "Custom" an RB starter is traded away: the stored strength
\* carries the PPR reception bonus, which Standard would not give
C13_Witness ==
    /\ TradeHandled(request)
    /\ Analyzed
    /\ UnknownPreset
    /\ LastReport.before_strength
          # team_strength_v3(LastOutcome.my_input, "Standard")[1]
    /\ LastReport.delta < 0

-----------------------------------------------------------------------------
(* Properties of the suggestions of a trade *)

Analysis == session.last_trade_result

HasAnalysis == "last_trade_result" \in DOMAIN session

\* C15: the suggestions kept with an analyzed trade hold exactly one
\* final_summary string, and the decision it states is the rationale of the
\* trade, with the same delta
C15_SummaryDecisionIsRationale ==
    HasAnalysis =>
        /\ Len(Analysis.suggestions.final_summary) = 1
        /\ Analysis.suggestions.final_summary[1].decision
              = Analysis.rationale.rationale
        /\ Analysis.suggestions.final_summary[1].decision
              \in {"Accept", "Neutral", "Reject"}
        /\ Analysis.suggestions.final_summary[1].delta = Analysis.delta

\* a trade that changes nothing among the starters: both say Neutral
C15_Witness ==
    /\ HasAnalysis
    /\ Analysis.suggestions.final_summary[1].decision = "Neutral"
    /\ Analysis.rationale.rationale = "Neutral"
    /\ Analysis.give # <<>>

-----------------------------------------------------------------------------
(* Properties of the stored trade reports *)

\* C16: no request changes or deletes a stored TradeReport row (a later
\* trade analysis, a roster edit or clear, saving, listing or unlisting a
\* roster, an AI explanation, a settings change), and an analyzed trade adds
\* exactly one row, any other request none
C16_ReportsAreImmutable ==
    [][/\ \A i \in DOMAIN TradeReport :
             i \in DOMAIN TradeReport' /\ TradeReport'[i] = TradeReport[i]
       /\ Len(TradeReport') =
             IF TradeHandled(request') /\ ~FailsValidation(request')
             THEN Len(TradeReport) + 1 ELSE Len(TradeReport)]_vars

\* a report is stored, and the roster it was computed from is cleared
C16_Witness ==
    /\ TradeReport # <<>>
    /\ request.handler = "clear_players"
    /\ Player = <<>>
    /\ TradeReport[1].before_strength > 0

-----------------------------------------------------------------------------
(* Properties of the position breakdown *)

\* the indices of the players of a list at an (uppercased) position
PlayersAt(players, position) ==
    {i \in DOMAIN players : NormPosition(players[i]) = position}

\* the sum of one entry ("starter" or "bench") of a breakdown over a set of
\* its positions
RECURSIVE SumEntries(_, _, _)
SumEntries(bd, S, starters) ==
    IF S = {} THEN 0
    ELSE LET pos == CHOOSE x \in S : TRUE
         IN  (IF starters THEN bd.map[pos].starter ELSE bd.map[pos].bench)
               + SumEntries(bd, S \ {pos}, starters)

\* C17: the keys of position_breakdown_v3 are exactly the uppercased
\* positions that occur in the input ("UNK" for a player without one); each
\* key maps to the sum of the scores of that position's starters and the sum
\* of the scores of its bench players, with the is_starter partition of
\* team_strength_v3; so the starter (bench) entries summed over all positions
\* give team_strength_v3's starter (bench) total
C17_BreakdownGroupsByPosition ==
    (e_call.fn = "position_breakdown_v3" /\ "result" \in DOMAIN e_call) =>
        LET bd == e_call.result
            key == e_call.scoring_type
            totals == team_strength_v3(e_players, key)
        IN  /\ DOMAIN bd.map = {NormPosition(e_players[i]) : i \in DOMAIN e_players}
            /\ \A pos \in DOMAIN bd.map :
                  /\ bd.map[pos].starter =
                        SumOver(PlayersAt(e_players, pos) \cap StarterIdx(e_players),
                                e_players, key)
                  /\ bd.map[pos].bench =
                        SumOver(PlayersAt(e_players, pos) \cap BenchIdx(e_players),
                                e_players, key)
            /\ SumEntries(bd, DOMAIN bd.map, TRUE) = totals[1]
            /\ SumEntries(bd, DOMAIN bd.map, FALSE) = totals[2]

\* a breakdown of three players at two positions, one of them written in
\* lower case, with a starter and a bench player at the same position
C17_Witness ==
    /\ e_call.fn = "position_breakdown_v3"
    /\ "result" \in DOMAIN e_call
    /\ Len(e_players) = 3
    /\ DOMAIN e_call.result.map = {"RB", "K"}
    /\ \E i \in DOMAIN e_players : Get(e_players[i], "position", "") = "rb"
    /\ e_call.result.map["RB"].starter > 0
    /\ e_call.result.map["RB"].bench > 0

-----------------------------------------------------------------------------
(* Properties of the unfavorable and neutral suggestions.  e_players is the *)
(* roster before the trade, e_after the roster after it.  A delta is, as   *)
(* the trade result and the strings report it, rounded to two decimals.    *)

Suggested ==
    /\ e_call.fn = "generate_trade_suggestions"
    /\ "result" \in DOMAIN e_call

\* the starter delta of the trade: after minus before, over the starters
StarterDelta ==
    Round2(SumOver(StarterIdx(e_after), e_after, e_call.scoring_type)
             - SumOver(StarterIdx(e_players), e_players, e_call.scoring_type))

\* the positions of the two rosters
TradePositions ==
    {NormPosition(e_players[i]) : i \in DOMAIN e_players}
      \cup {NormPosition(e_after[i]) : i \in DOMAIN e_after}

\* the starter-score delta and the bench-score delta of a position
PositionStarterDelta(pos) ==
    Round2(SumOver(PlayersAt(e_after, pos) \cap StarterIdx(e_after),
                   e_after, e_call.scoring_type)
             - SumOver(PlayersAt(e_players, pos) \cap StarterIdx(e_players),
                       e_players, e_call.scoring_type))

PositionBenchDelta(pos) ==
    Round2(SumOver(PlayersAt(e_after, pos) \cap BenchIdx(e_after),
                   e_after, e_call.scoring_type)
             - SumOver(PlayersAt(e_players, pos) \cap BenchIdx(e_players),
                       e_players, e_call.scoring_type))

\* C18: unfavorable_trade_recos is non-empty exactly when the rounded starter
\* delta is negative; it then holds between 1 and 4 strings, Recover strings
\* followed by the generic counter-offer suggestion as the last one; with a
\* zero or positive delta it is empty
C18_UnfavorableIffNegativeDelta ==
    Suggested =>
        LET recos == e_call.result.unfavorable_trade_recos
        IN  /\ (recos # <<>>) <=> (StarterDelta < 0)
            /\ recos # <<>> =>
                  /\ Len(recos) \in 1..4
                  /\ recos[Len(recos)].text = "Consider counter-offering"
                  /\ \A i \in 1..(Len(recos) - 1) : recos[i].text = "Recover"

\* four positions of the roster after the trade have lost starter score, and
\* three of them are named before the counter-offer suggestion
C18_Witness ==
    /\ Suggested
    /\ Cardinality({pos \in {NormPosition(e_after[i]) : i \in DOMAIN e_after} :
                       PositionStarterDelta(pos) < 0}) >= 4
    /\ Len(e_call.result.unfavorable_trade_recos) = 4

\* the positions the Recover strings name
RecoverPositions ==
    LET recos == e_call.result.unfavorable_trade_recos
    IN  {recos[i].pos : i \in {j \in DOMAIN recos : recos[j].text = "Recover"}}

\* the positions whose starter score the trade lowers
DroppedPositions == {pos \in TradePositions : PositionStarterDelta(pos) < 0}

\* C19: with a negative starter delta, the positions the Recover strings name
\* are exactly the (up to 3) positions with the most negative starter-score
\* delta between the two breakdowns, a position that had starters before the
\* trade and has no player after it included
C19_Original ==
    (Suggested /\ StarterDelta < 0) =>
        /\ RecoverPositions \subseteq DroppedPositions
        /\ Cardinality(RecoverPositions) =
              IF Cardinality(DroppedPositions) < 3
              THEN Cardinality(DroppedPositions) ELSE 3
        /\ \A p \in RecoverPositions, q \in DroppedPositions \ RecoverPositions :
              PositionStarterDelta(p) <= PositionStarterDelta(q)

\* the positions whose bench score the trade raises
BenchGainPositions == {pos \in TradePositions : PositionBenchDelta(pos) > 0}

-----------------------------------------------------------------------------
(* Properties of the lineup suggestions: warnings, promotions, depth *)

\* the indices of the entries of a suggestion list with a given text
EntriesWith(list, text) == {i \in DOMAIN list : list[i].text = text}

\* C21: positional_need_warnings holds one too-many-starters string per
\* violation validate_lineup reports on the roster after the trade, one
\* no-starter-set string for every position of POSITION_LIMITS with a limit
\* above zero and no starter in that roster, and nothing else; a roster with
\* a starter at every such position and no position over its limit gets no
\* warning
C21_WarningsAreViolationsAndGaps ==
    Suggested =>
        LET warnings == e_call.result.positional_need_warnings
            violations == validate_lineup(e_after).violations
            too_many == EntriesWith(warnings, "Too many starters")
            missing == EntriesWith(warnings, "No starter set")
            gaps == {pos \in DOMAIN POSITION_LIMITS :
                        /\ POSITION_LIMITS[pos] > 0
                        /\ StartersAt(e_after, pos) = {}}
        IN  /\ too_many \cup missing = DOMAIN warnings
            /\ Cardinality(too_many) = Len(violations)
            /\ \A v \in DOMAIN violations : \E i \in too_many :
                  /\ warnings[i].pos = violations[v].position
                  /\ warnings[i].current = violations[v].current
                  /\ warnings[i].limit = violations[v].limit
            /\ Cardinality(missing) = Cardinality(gaps)
            /\ {warnings[i].pos : i \in missing} = gaps
            /\ \A i \in missing : warnings[i].limit = POSITION_LIMITS[warnings[i].pos]
            /\ (gaps = {} /\ validate_lineup(e_after).valid) => warnings = <<>>

\* two kickers start and no one else: one too-many string and the strings of
\* the seven positions left without a starter
C21_Witness ==
    /\ Suggested
    /\ Len(validate_lineup(e_after).violations) = 1
    /\ Len(e_call.result.positional_need_warnings) = 8
    /\ e_call.result.positional_need_warnings[1].pos = "K"
    /\ e_call.result.positional_need_warnings[1].current = 2

\* a roster that fills every lineup slot gets no warning
C21_WitnessFull ==
    /\ Suggested
    /\ Len(e_after) = 8
    /\ e_call.result.positional_need_warnings = <<>>

\* the score of a player of the roster after the trade
AfterScore(i) == calculate_player_score(e_after[i], e_call.scoring_type)

\* the bench players and the starters of the roster after the trade at a
\* position
BenchAt(pos) == PlayersAt(e_after, pos) \cap BenchIdx(e_after)

StartingAt(pos) == PlayersAt(e_after, pos) \cap StarterIdx(e_after)

\* the lowest score among the top-N starters of a position by score, N the
\* position's limit: fewer than N starters score more, and at least
\* min(N, number of starters) score as much
WeakestCountedStarter(pos) ==
    LET limit == Get(POSITION_LIMITS, pos, 1)
        n == Cardinality(StartingAt(pos))
        k == IF n < limit THEN n ELSE limit
    IN  CHOOSE sc \in {AfterScore(i) : i \in StartingAt(pos)} :
            /\ Cardinality({i \in StartingAt(pos) : AfterScore(i) > sc}) < k
            /\ Cardinality({i \in StartingAt(pos) : AfterScore(i) >= sc}) >= k

\* the position has a bench player who outscores the weakest counted starter
Promotable(pos) ==
    /\ BenchAt(pos) # {}
    /\ StartingAt(pos) # {}
    /\ \E b \in BenchAt(pos) : AfterScore(b) > WeakestCountedStarter(pos)

\* C22: for each position of the roster after the trade, starter_optimization
\* holds a promote suggestion, and only one, exactly when the position has a
\* bench player and a starter and the highest bench score is strictly above
\* the lowest score among the top-N starters (N the position's limit); the
\* player it names is a bench player of the position with the highest score
C22_PromoteBestBenchOverWeakestStarter ==
    Suggested =>
        LET promos == e_call.result.starter_optimization
        IN  /\ \A i \in DOMAIN promos : promos[i].text = "Promote"
            /\ \A i, j \in DOMAIN promos :
                  promos[i].pos = promos[j].pos => i = j
            /\ {promos[i].pos : i \in DOMAIN promos}
                  = {pos \in {NormPosition(e_after[i]) : i \in DOMAIN e_after} :
                        Promotable(pos)}
            /\ \A i \in DOMAIN promos :
                  \E b \in BenchAt(promos[i].pos) :
                     /\ e_after[b].name = promos[i].name
                     /\ \A c \in BenchAt(promos[i].pos) :
                           AfterScore(c) <= AfterScore(b)

\* a bench player outscores the only starter of the position, written in
\* another case, and is the one promoted
C22_Witness ==
    /\ Suggested
    /\ Len(e_call.result.starter_optimization) = 1
    /\ e_call.result.starter_optimization[1].name = "Eve"
    /\ e_call.result.starter_optimization[1].pos = "RB"
    /\ StartingAt("RB") # {}

\* two kickers start, the limit is one, and the bench kicker scores between
\* them: he is not promoted
C22_WitnessNotPromoted ==
    /\ Suggested
    /\ Cardinality(StartingAt("K")) = 2
    /\ \E b \in BenchAt("K"), i, j \in StartingAt("K") :
          AfterScore(i) < AfterScore(b) /\ AfterScore(b) < AfterScore(j)
    /\ e_call.result.starter_optimization = <<>>

\* the starter score and the bench score of a position after the trade
StarterScoreAt(pos) == SumOver(StartingAt(pos), e_after, e_call.scoring_type)

BenchScoreAt(pos) == SumOver(BenchAt(pos), e_after, e_call.scoring_type)

\* C23: for every position of the breakdown after the trade, depth_and_bench
\* flags thin depth exactly when the starter score is above zero and the
\* bench score below 0.30 times the starter score, and flags a bench surplus
\* exactly when the bench score is above the starter score; no position gets
\* both flags, and no other position is flagged
C23_ThinOrSurplus ==
    Suggested =>
        LET flags == e_call.result.depth_and_bench
            thin == EntriesWith(flags, "Depth is thin")
            surplus == EntriesWith(flags, "Bench surplus")
            positions == {NormPosition(e_after[i]) : i \in DOMAIN e_after}
        IN  /\ thin \cup surplus = DOMAIN flags
            /\ \A i, j \in DOMAIN flags :
                  (flags[i].pos = flags[j].pos /\ flags[i].text = flags[j].text)
                     => i = j
            /\ {flags[i].pos : i \in thin}
                  = {pos \in positions :
                        /\ StarterScoreAt(pos) > 0
                        /\ 100 * BenchScoreAt(pos) < 30 * StarterScoreAt(pos)}
            /\ {flags[i].pos : i \in surplus}
                  = {pos \in positions : BenchScoreAt(pos) > StarterScoreAt(pos)}
            /\ {flags[i].pos : i \in thin} \cap {flags[i].pos : i \in surplus} = {}

\* one position is thin although it has a bench player, another has a bench
\* surplus, and a bench equal to the starters is neither
C23_Witness ==
    /\ Suggested
    /\ \E i \in DOMAIN e_call.result.depth_and_bench :
          /\ e_call.result.depth_and_bench[i].text = "Depth is thin"
          /\ BenchScoreAt(e_call.result.depth_and_bench[i].pos) > 0
    /\ \E i \in DOMAIN e_call.result.depth_and_bench :
          e_call.result.depth_and_bench[i].text = "Bench surplus"

C23_WitnessEqual ==
    /\ Suggested
    /\ StarterScoreAt("K") > 0
    /\ BenchScoreAt("K") = StarterScoreAt("K")
    /\ e_call.result.depth_and_bench = <<>>

-----------------------------------------------------------------------------
(* Properties of the positional improvement report *)

-----------------------------------------------------------------------------
(* Properties of the stored roster *)

\* C25: from an empty roster, after any sequence of add_player,
\* add_from_search, toggle_player_status and clear_players requests of one
\* user, handled one after the other, the stored roster has at no position
\* more starters than the position's limit: validate_lineup reports it valid
C25_Original == validate_lineup(CurrentPlayerDicts).valid

\* C26: when requests of one user that each create a starter at the same
\* position (add_player, add_from_search, a bench-to-starter toggle) are
\* interleaved, each reading the roster and checking can_add_starter before
\* either commits, the stored roster still has at no position more starters
\* than the position's limit
C26_Original ==
    \A pos \in SeenPositions(CurrentPlayerDicts) :
        Cardinality(StartersAt(CurrentPlayerDicts, pos))
           <= Get(POSITION_LIMITS, pos, 1)

-----------------------------------------------------------------------------
(* Properties of the rosters around a trade *)

\* C27: when the roster before a trade passes validate_lineup, the post-trade
\* roster an analyzed trade builds (and computes after_strength from) passes
\* it too: no position has more starters than its limit
C27_Original ==
    (/\ TradeHandled(request)
     /\ Analyzed
     /\ validate_lineup(LastOutcome.my_input).valid)
        => validate_lineup(LastOutcome.my_post).valid

\* the keys of the session that get_live_context() fills in when absent
LiveContextKeys == {"season", "week", "use_live_projections"}

\* the session holds the same value before and after, at every key but these
SessionSameBut(keys) ==
    \A key \in (DOMAIN session \cup DOMAIN session') \ keys :
        /\ key \in DOMAIN session
        /\ key \in DOMAIN session'
        /\ session'[key] = session[key]

\* the stored rosters are untouched and one TradeReport row is added
RostersKeptOneReportAdded ==
    /\ Player' = Player
    /\ SavedRoster' = SavedRoster
    /\ Len(TradeReport') = Len(TradeReport) + 1
    /\ SubSeq(TradeReport', 1, Len(TradeReport)) = TradeReport
    /\ LeagueSettings' = LeagueSettings
    /\ "last_trade_result" \in DOMAIN session'

-----------------------------------------------------------------------------
(* Properties of the saved rosters of another user *)

\* the saved roster is the first user's own, or its owner has it listed
OwnOrListed(roster_id) ==
    \/ SavedRoster[roster_id].user_id = 1
    \/ SavedRoster[roster_id].is_public

\* C29: whatever rosters were saved, listed and unlisted, a saved roster the
\* first user is sent by roster_players_json, and a saved roster a trade of
\* the first user was analyzed against, is the first user's own roster or a
\* roster that its owner has listed at that moment
C29_Original ==
    /\ (/\ request # <<>>
        /\ request.handler = "roster_players_json"
        /\ response.status = 200)
           => OwnOrListed(request.roster_id)
    /\ (TradeHandled(request) /\ Analyzed)
           => OwnOrListed(ParseInt(request.other_roster_id)[1])

-----------------------------------------------------------------------------
(* Properties of the remember-me token *)

\* C30: once the user has requested logout, no remember-me token issued
\* before that request authenticates a request any more: check_remember_me
\* finds no user for it, whatever logins, session timeouts and logouts came
\* before, a logout after the timeout has cleared the session included
C30_Original ==
    \A remember_token \in revoked : check_remember_me(remember_token) = <<>>

=============================================================================
